---- MODULE Spec2Model ----
(***************************************************************************)
(* Geocoding core of the Bourgogne wine map: the rate-limited, caching     *)
(* clients (NominatimClient, WikidataClient, Nominatim), the candidate     *)
(* scorers (pick_best_geocode, pick_best_wikidata_entity, choose_polygon)  *)
(* and the resolution pipeline run() of scripts/enrich_bourgogne_geo.py.   *)
(*                                                                         *)
(* Conventions.  Python strings are TLA+ strings.  An optional value is a  *)
(* sequence of length 0 (None / missing) or 1.  Coordinates are integers   *)
(* (thousandths of a degree), confidences are integers (thousandths).  A    *)
(* float score is a pair <<t, k>>: t is the decimal value in tenths and k  *)
(* the distance, in units of 2^-54, between the IEEE double the code holds *)
(* and the double nearest to t/10.                                         *)
(***************************************************************************)
EXTENDS Integers, Sequences, FiniteSets, TLC

\* ------------------------------------------------------------------ bounds
MaxItems == 2
MaxFound == 2
MaxCands == 2
NomMinDelay == 2
WdMinDelay == 1

\* ----------------------------------------------------------------- strings
UPPER == "ABCDEFGHIJKLMNOPQRSTUVWXYZ"
LOWER == "abcdefghijklmnopqrstuvwxyz"
DIGITS == "0123456789"

Min(a, b) == IF a < b THEN a ELSE b
Max(a, b) == IF a > b THEN a ELSE b

CharAt(s, i) == SubSeq(s, i, i)

CharsOf(s) == {CharAt(s, i) : i \in 1..Len(s)}

\* str.lower(), one character
LowerMap == [c \in CharsOf(UPPER) |->
                CharAt(LOWER, CHOOSE i \in 1..Len(UPPER) : CharAt(UPPER, i) = c)]

LowerChar(c) == IF c \in DOMAIN LowerMap THEN LowerMap[c] ELSE c

\* str.lower()
Lower(s) ==
    LET F[i \in 0..Len(s)] ==
            IF i = 0 THEN "" ELSE F[i - 1] \o LowerChar(CharAt(s, i))
    IN F[Len(s)]

IsSpace(c) == c = " "

\* str.strip()
Strip(s) ==
    IF \A i \in 1..Len(s) : IsSpace(CharAt(s, i)) THEN ""
    ELSE LET lo == CHOOSE i \in 1..Len(s) :
                       ~IsSpace(CharAt(s, i)) /\ \A j \in 1..(i - 1) : IsSpace(CharAt(s, j))
             hi == CHOOSE i \in 1..Len(s) :
                       ~IsSpace(CharAt(s, i)) /\ \A j \in (i + 1)..Len(s) : IsSpace(CharAt(s, j))
         IN SubSeq(s, lo, hi)

\* re.sub(r"\s+", " ", value): every run of whitespace becomes one space
CollapseSpaces(s) ==
    LET F[i \in 0..Len(s)] ==
            IF i = 0 THEN ""
            ELSE IF IsSpace(CharAt(s, i)) /\ i > 1 /\ IsSpace(CharAt(s, i - 1))
                 THEN F[i - 1]
                 ELSE F[i - 1] \o CharAt(s, i)
    IN F[Len(s)]

\* t in s
Contains(s, t) ==
    \E i \in 1..(Len(s) - Len(t) + 1) : SubSeq(s, i, i + Len(t) - 1) = t

\* str.split(): the maximal runs of non-space characters
SplitWords(s) ==
    LET starts == {i \in 1..Len(s) :
                      ~IsSpace(CharAt(s, i)) /\ (i = 1 \/ IsSpace(CharAt(s, i - 1)))}
        ends == {j \in 1..Len(s) :
                    ~IsSpace(CharAt(s, j)) /\ (j = Len(s) \/ IsSpace(CharAt(s, j + 1)))}
    IN {SubSeq(s, i, CHOOSE j \in ends : j >= i /\ \A k \in ends : k >= i => j <= k) :
           i \in starts}

norm_text(value) == Strip(CollapseSpaces(value))

\* a < b on strings: code point order of the first differing character
ALPHABET == " ',-0123456789:ABCDEFGHIJKLMNOPQRSTUVWXYZ_abcdefghijklmnopqrstuvwxyz"
CodeMap == [c \in CharsOf(ALPHABET) |-> CHOOSE i \in 1..Len(ALPHABET) : CharAt(ALPHABET, i) = c]

StrLess(a, b) ==
    \E i \in 1..(Min(Len(a), Len(b)) + 1) :
        /\ SubSeq(a, 1, i - 1) = SubSeq(b, 1, i - 1)
        /\ IF i > Len(a) THEN i <= Len(b)
           ELSE i <= Len(b) /\ CodeMap[CharAt(a, i)] < CodeMap[CharAt(b, i)]

\* sorted(S) for a set of strings
Sorted(S) ==
    LET F[T \in SUBSET S] ==
            IF T = {} THEN <<>>
            ELSE LET m == CHOOSE x \in T : \A y \in T : x = y \/ StrLess(x, y)
                 IN <<m>> \o F[T \ {m}]
    IN F[S]

COMMON_NOISE_TOKENS ==
    {"domaine", "domain", "maison", "les", "du", "de", "la", "le", "des",
     "and", "et", "vinhos", "wine"}

\* re.sub(r"[^A-Za-z0-9 ]+", " ", name): runs of other characters become a space
NameChars == CharsOf(UPPER) \cup CharsOf(LOWER) \cup CharsOf(DIGITS) \cup {" "}
IsNameChar(c) == c \in NameChars

CleanName(s) ==
    LET F[i \in 0..Len(s)] ==
            IF i = 0 THEN ""
            ELSE IF IsNameChar(CharAt(s, i)) THEN F[i - 1] \o CharAt(s, i)
                 ELSE IF i > 1 /\ ~IsNameChar(CharAt(s, i - 1)) THEN F[i - 1]
                      ELSE F[i - 1] \o " "
    IN F[Len(s)]

producer_tokens(name) ==
    {p \in SplitWords(Lower(CleanName(name))) :
        Len(p) >= 4 /\ p \notin COMMON_NOISE_TOKENS}

\* ------------------------------------------------------------ float scores
\* x + w for the doubles the scorers can hold: the decimal sum, and how far the
\* IEEE sum lies from the double nearest to it (0 where not listed).
FDEV ==
    <<3, 0, 6>> :> -2 @@ <<6, 0, 3>> :> -2 @@ <<6, 0, 12>> :> -4 @@
    <<7, 0, 6>> :> -4 @@ <<8, 0, 4>> :> 4 @@ <<9, -2, 4>> :> -4 @@
    <<9, -2, 6>> :> 0 @@ <<11, 0, 6>> :> 4 @@ <<12, 0, 6>> :> -4 @@
    <<13, -4, 4>> :> -4 @@ <<13, 0, 4>> :> 4 @@ <<14, 0, 4>> :> -4 @@
    <<16, 0, 3>> :> 4 @@ <<17, 4, 4>> :> 0 @@ <<18, -4, 3>> :> -8 @@
    <<18, -4, 4>> :> -8 @@ <<18, -4, 6>> :> 0 @@ <<19, 4, 4>> :> 8 @@
    <<19, 4, 6>> :> 0 @@ <<21, -8, 4>> :> -8 @@ <<21, -8, 6>> :> -8 @@
    <<23, 0, 4>> :> -8 @@ <<24, 0, 3>> :> -8 @@ <<27, -8, 4>> :> -8 @@
    <<27, -8, 6>> :> 0 @@ <<33, 0, 4>> :> -8 @@
    <<4, 0, 2>> :> 2 @@ <<4, 0, 8>> :> 4 @@ <<12, 4, 2>> :> 4 @@
    <<14, 0, 2>> :> -4 @@ <<14, 0, 12>> :> -8 @@ <<18, -4, 2>> :> -4 @@
    <<22, 0, 2>> :> 8 @@ <<26, -8, 2>> :> 0 @@
    <<12, 4, 4>> :> 0 @@ <<16, 0, 8>> :> 8 @@ <<24, 8, 4>> :> 8 @@
    <<28, 8, 4>> :> 0

\* score += w (w in tenths; w = 0 leaves the double as it is)
FAdd(x, w) ==
    IF w = 0 THEN x
    ELSE <<x[1] + w,
           IF <<x[1], x[2], w>> \in DOMAIN FDEV THEN FDEV[<<x[1], x[2], w>>] ELSE 0>>

\* x < y on doubles
FLess(x, y) == x[1] < y[1] \/ (x[1] = y[1] /\ x[2] < y[2])

FZero == <<0, 0>>
\* best_score = -1.0
FMinusOne == <<-10, 0>>

\* min(1.2, matched * 0.4): 3 * 0.4 is 1.2000000000000002, cut to 1.2
TokenWeight(matched) == Min(12, matched * 4)

\* ------------------------------------------------------- upstream records
\* One entry of a Nominatim result list.  shape is "dict" for a JSON object and
\* "other" for anything else; lat, lon and addr_country_code are optional.
Item(lat, lon, display_name, class, type, geojson) ==
    [shape |-> "dict", lat |-> lat, lon |-> lon, display_name |-> display_name,
     class |-> class, type |-> type, has_address |-> TRUE,
     addr_country_code |-> <<"fr">>, country_code |-> "",
     state |-> "", county |-> "", geojson |-> geojson]

NonDictItem == [Item(<<>>, <<>>, "", "", "", "") EXCEPT !.shape = "other"]

\* One entry of a Wikidata wbsearchentities "search" list.
Entity(id, label, description) ==
    [shape |-> "dict", id |-> id, label |-> label, description |-> description]

NonDictEntity == [Entity("", "", "") EXCEPT !.shape = "other"]

GeocodeResult(lat, lng, display_name, query, source, confidence) ==
    [lat |-> lat, lng |-> lng, display_name |-> display_name, query |-> query,
     source |-> source, confidence |-> confidence]

\* ---------------------------------------------------------------- scorers
\* float(item.get("lat")), float(item.get("lon")) both succeed
HasCoords(item) == item.lat # <<>> /\ item.lon # <<>>

\* address.get(k, ...) with address = {} when item["address"] is no dict
ItemCountry(item) ==
    IF item.has_address /\ item.addr_country_code # <<>>
    THEN item.addr_country_code[1]
    ELSE item.country_code

ItemState(item) == IF item.has_address THEN item.state ELSE ""
ItemCounty(item) == IF item.has_address THEN item.county ELSE ""

\* min(0.98, max(0.2, best_score / 2.8)) rounded to 3 decimals, in thousandths
MutConfidence(score) == (score[1] * 500 + 7) \div 14
Confidence(score) == Min(980, Max(200, (score[1] * 500 + 7) \div 14))

\* The score pick_best_geocode gives one item with parseable coordinates.
GeoScore(item, p_tokens, exp_region) ==
    LET display_l == Lower(norm_text(item.display_name))
        item_class == Lower(norm_text(item.class))
        item_type == Lower(norm_text(item.type))
        matched == Cardinality({t \in p_tokens : Contains(display_l, t)})
        country == Lower(norm_text(ItemCountry(item)))
        region_blob == Lower(norm_text(ItemState(item))) \o " "
                       \o Lower(norm_text(ItemCounty(item))) \o " " \o display_l
        s1 == FAdd(FZero,
                   IF item_class \in {"shop", "office", "tourism", "amenity"} THEN 6 ELSE 0)
        s2 == FAdd(s1, IF \/ Contains(item_type, "win")
                          \/ Contains(item_type, "vine")
                          \/ Contains(display_l, "wine") THEN 6 ELSE 0)
        s3 == FAdd(s2, IF p_tokens # {} THEN TokenWeight(matched) ELSE 0)
        s4 == FAdd(s3, IF country = "fr" THEN 3 ELSE 0)
        s5 == FAdd(s4, IF Contains(region_blob, "bourgogne") THEN 6 ELSE 0)
    IN FAdd(s5, IF exp_region # "" /\ Contains(display_l, exp_region) THEN 4 ELSE 0)

\* `if score > best_score`: (best_score, index of best_item) after item i
MutBetter(prev, score, i) ==
    IF ~FLess(score, prev.score) THEN [score |-> score, item |-> i] ELSE prev
Better(prev, score, i) ==
    IF FLess(prev.score, score) THEN [score |-> score, item |-> i] ELSE prev

\* The loop of pick_best_geocode: (best_score, index of best_item) after the
\* whole list; index 0 is best_item = None.
GeoScan(results, p_tokens, exp_region) ==
    LET F[i \in 0..Len(results)] ==
            IF i = 0 THEN [score |-> FMinusOne, item |-> 0]
            ELSE IF ~HasCoords(results[i]) THEN F[i - 1]
                 ELSE Better(F[i - 1], GeoScore(results[i], p_tokens, exp_region), i)
    IN F[Len(results)]

\* item.get(...) on an entry that is no JSON object raises AttributeError
PickGeocodeRaises(results) ==
    \E i \in 1..Len(results) : results[i].shape # "dict"

\* the GeocodeResult pick_best_geocode builds from best_item and best_score
BestGeocode(results, best) ==
    IF best.item = 0 THEN <<>>
    ELSE <<GeocodeResult(results[best.item].lat[1], results[best.item].lon[1],
                         norm_text(results[best.item].display_name),
                         "", "nominatim", Confidence(best.score))>>

\* pick_best_geocode: <<>> for None, else <<GeocodeResult>>; defined where it
\* does not raise.
pick_best_geocode(results, producer_name, expected_region) ==
    IF results = <<>> THEN <<>>
    ELSE BestGeocode(results, GeoScan(results, producer_tokens(producer_name),
                                      Lower(expected_region)))

WdScore(entity, tokens) ==
    LET blob == Lower(norm_text(entity.label) \o " " \o norm_text(entity.description))
        matched == Cardinality({t \in tokens : Contains(blob, t)})
        s1 == FAdd(FZero,
                   IF \E k \in {"winery", "wine producer", "wine house",
                                "vineyard", "viticulture"} : Contains(blob, k)
                   THEN 10 ELSE 0)
        s2 == FAdd(s1, IF \/ Contains(blob, "domaine")
                          \/ Contains(blob, "chateau")
                          \/ Contains(blob, "maison") THEN 4 ELSE 0)
        s3 == FAdd(s2, IF tokens # {} THEN TokenWeight(matched) ELSE 0)
    IN FAdd(s3, IF \/ Contains(blob, "france")
                   \/ Contains(blob, "burgundy")
                   \/ Contains(blob, "bourgogne") THEN 2 ELSE 0)

WdScan(results, tokens) ==
    LET F[i \in 0..Len(results)] ==
            IF i = 0 THEN [score |-> FMinusOne, item |-> 0]
            ELSE IF results[i].shape # "dict" THEN F[i - 1]
                 ELSE Better(F[i - 1], WdScore(results[i], tokens), i)
    IN F[Len(results)]

BestEntity(results, best) == IF best.item = 0 THEN <<>> ELSE <<results[best.item]>>

\* pick_best_wikidata_entity: <<>> for None, else <<entity>>
pick_best_wikidata_entity(results, producer) ==
    IF results = <<>> THEN <<>>
    ELSE BestEntity(results, WdScan(results, producer_tokens(producer)))

ALLOWED_CLASSES == {"boundary", "place", "landuse", "natural"}
ALLOWED_TYPES ==
    {"administrative", "village", "municipality", "hamlet", "quarter", "city",
     "town", "county", "region", "local_authority", "suburb"}
DISALLOWED_TYPES ==
    {"place_of_worship", "bicycle_parking", "alcohol", "restaurant", "hotel",
     "supermarket", "house", "yes"}

PolyScore(item, sub_region) ==
    LET display_l == Lower(item.display_name)
        s1 == FAdd(FZero, IF Contains(display_l, Lower(sub_region)) THEN 16 ELSE 0)
        s2 == FAdd(s1, IF Contains(display_l, "bourgogne") THEN 8 ELSE 0)
        s3 == FAdd(s2, IF item.type \in {"administrative", "village", "municipality",
                                         "hamlet", "quarter", "city"} THEN 4 ELSE 0)
        s4 == FAdd(s3, IF item.class \in {"boundary", "place"} THEN 4 ELSE 0)
        state == Lower(ItemState(item))
        county == Lower(ItemCounty(item))
    IN FAdd(s4, IF \/ Contains(state, "bourgogne")
                   \/ Contains(county, "cote-d'or")
                   \/ Contains(county, "saone-et-loire")
                   \/ Contains(county, "yonne") THEN 4 ELSE 0)

\* score_candidate: <<>> for None, else <<PolygonCandidate>>
MutScoreCandidate(item, sub_region) ==
    IF item.geojson \notin {"Polygon", "MultiPolygon"} THEN <<>>
    ELSE IF ~HasCoords(item) THEN <<>>
    ELSE <<[geojson |-> item.geojson, display_name |-> item.display_name,
            item_type |-> item.type, item_class |-> item.class,
            lat |-> item.lat[1], lon |-> item.lon[1],
            score |-> PolyScore(item, sub_region)]>>

score_candidate(item, sub_region) ==
    IF item.geojson \notin {"Polygon", "MultiPolygon"} THEN <<>>
    ELSE IF item.type \in DISALLOWED_TYPES THEN <<>>
    ELSE IF item.class # "" /\ item.class \notin ALLOWED_CLASSES THEN <<>>
    ELSE IF item.type # "" /\ item.type \notin ALLOWED_TYPES THEN <<>>
    ELSE IF ~HasCoords(item) THEN <<>>
    ELSE <<[geojson |-> item.geojson, display_name |-> item.display_name,
            item_type |-> item.type, item_class |-> item.class,
            lat |-> item.lat[1], lon |-> item.lon[1],
            score |-> PolyScore(item, sub_region)]>>

\* candidates.sort(key=lambda c: c.score, reverse=True): a stable sort, so a
\* candidate goes behind every earlier one whose score is not smaller.
SortByScore(cs) ==
    LET F[i \in 0..Len(cs)] ==
            IF i = 0 THEN <<>>
            ELSE LET p == Cardinality({j \in 1..Len(F[i - 1]) :
                                          ~FLess(F[i - 1][j].score, cs[i].score)})
                 IN SubSeq(F[i - 1], 1, p) \o <<cs[i]>>
                    \o SubSeq(F[i - 1], p + 1, Len(F[i - 1]))
    IN F[Len(cs)]

ChoosePolygonRaises(results) ==
    \E i \in 1..Len(results) : results[i].shape # "dict"

\* the list comprehension of choose_polygon
PolyCandidates(results, sub_region) ==
    LET F[i \in 0..Len(results)] ==
            IF i = 0 THEN <<>> ELSE F[i - 1] \o score_candidate(results[i], sub_region)
    IN F[Len(results)]

\* choose_polygon: <<>> for None, else <<PolygonCandidate>>
choose_polygon(results, sub_region) ==
    LET candidates == PolyCandidates(results, sub_region)
    IN IF candidates = <<>> THEN <<>> ELSE <<SortByScore(candidates)[1]>>

\* ---------------------------------------------------- JSON and the cache
\* A value held in the cache map: a list (search results), or a dict with
\* optional numeric "lat" and "lng" (an entity's coordinate, None for absent).
JList(items) == [kind |-> "list", items |-> items, lat |-> <<>>, lng |-> <<>>]
JCoords(lat, lng) == [kind |-> "dict", items |-> <<>>, lat |-> lat, lng |-> lng]

\* self.cache[key] = value
MutPut(cache_map, key, value) == (key :> value)
Put(cache_map, key, value) == (key :> value) @@ cache_map

EmptyMap == [k \in {} |-> JList(<<>>)]

\* json.dumps of one cached value: None becomes null, a number a number
DumpNumber(x) == IF x = <<>> THEN <<"null">> ELSE <<"number", x[1]>>
DumpValue(v) ==
    IF v.kind = "list" THEN [json |-> "array", items |-> v.items,
                             lat |-> <<"null">>, lng |-> <<"null">>]
    ELSE [json |-> "object", items |-> <<>>,
          lat |-> DumpNumber(v.lat), lng |-> DumpNumber(v.lng)]

\* json.loads of one member of the cache file
LoadNumber(x) == IF x[1] = "null" THEN <<>> ELSE <<x[2]>>
LoadValue(j) ==
    IF j.json = "array" THEN JList(j.items)
    ELSE JCoords(LoadNumber(j.lat), LoadNumber(j.lng))

\* The cache file: absent, a JSON object written by save_cache, or (valid
\* FALSE) text that json.loads rejects.
NoFile == [exists |-> FALSE, valid |-> TRUE,
           members |-> [k \in {} |-> DumpValue(JList(<<>>))]]

\* write_text opens the file for writing, which empties it, and then writes:
\* the file a save leaves when the process is stopped in between
TornFile == [NoFile EXCEPT !.exists = TRUE, !.valid = FALSE]

\* save_cache: the file is rewritten with json.dumps(self.cache)
save_cache(cache_map) ==
    [exists |-> TRUE, valid |-> TRUE,
     members |-> [k \in DOMAIN cache_map |-> DumpValue(cache_map[k])]]

\* _load_cache: {} when the file does not exist or json.loads raises
\* JSONDecodeError, else json.loads of it
load_cache(file) ==
    IF ~file.exists \/ ~file.valid THEN EmptyMap
    ELSE [k \in DOMAIN file.members |-> LoadValue(file.members[k])]

\* ------------------------------------------------------ upstream responses
\* What urlopen gives: status "error" (timeout, connection error: urlopen
\* raises) or "ok" with a body.  A body is malformed (no JSON), a JSON list
\* (items), a JSON object or a JSON scalar.  Of an object the clients read
\* "search" (items, a list iff search_ok) and the P625 claim of the entity:
\* p625 is "absent", "coords" (latitude lat, longitude lng), "no_numbers"
\* (a value object without numeric latitude and longitude) or "value_not_dict".
Body(kind, items, search_ok, p625, lat, lng) ==
    [kind |-> kind, items |-> items, search_ok |-> search_ok, p625 |-> p625,
     lat |-> lat, lng |-> lng]

HttpError == [status |-> "error", body |-> Body("malformed", <<>>, FALSE, "absent", 0, 0)]
Ok(body) == [status |-> "ok", body |-> body]
Malformed == Ok(Body("malformed", <<>>, FALSE, "absent", 0, 0))
JsonScalar == Ok(Body("scalar", <<>>, FALSE, "absent", 0, 0))
JsonList(items) == Ok(Body("list", items, FALSE, "absent", 0, 0))
JsonSearch(items) == Ok(Body("dict", items, TRUE, "absent", 0, 0))
JsonNoSearch == Ok(Body("dict", <<>>, FALSE, "absent", 0, 0))
JsonEntity(p625, lat, lng) == Ok(Body("dict", <<>>, FALSE, p625, lat, lng))

\* ------------------------------------------------------------ rate limiting
Clients == {"nom", "wd", "poly"}

\* min_delay of NominatimClient / Nominatim and of WikidataClient, in ticks
MinDelay(c) == IF c = "wd" THEN WdMinDelay ELSE NomMinDelay

\* time.time() - last_request is kept up to Cap: every larger value acts alike
Cap == Max(NomMinDelay, WdMinDelay) + 1

\* d ticks pass
Advance(el, d) == [c \in DOMAIN el |-> Min(el[c] + d, Cap)]

\* elapsed = now - self.last_request; if elapsed < min_delay: sleep(min_delay - elapsed)
MutSleepFor(c, e) == 0
SleepFor(c, e) == IF e < MinDelay(c) THEN MinDelay(c) - e ELSE 0

\* By how much a sleep may overrun, and how long urlopen may take, in ticks
Overruns == {0, 1}
Durations == {0, 1}

\* The timing of one network request of client c: the sleep asked for, the
\* time since last_request when urlopen starts (over: the sleep's overrun), and
\* the clocks after the call took dur ticks; last_request is set only when
\* urlopen returned.
MutRequest(c, el, resp, over, dur) ==
    LET slept == SleepFor(c, el[c])
        started == Advance(el, slept + over)
        after == Advance(started, dur)
    IN [slept |-> slept, gap |-> started[c], elapsed |-> [after EXCEPT ![c] = 0]]
Request(c, el, resp, over, dur) ==
    LET slept == SleepFor(c, el[c])
        started == Advance(el, slept + over)
        after == Advance(started, dur)
    IN [slept |-> slept, gap |-> started[c],
        elapsed |-> IF resp.status = "error" THEN after ELSE [after EXCEPT ![c] = 0]]

\* ----------------------------------------------------------------- clients
\* What one client call does: ret (the value returned), raised (an exception
\* left the call), net (urlopen was called), slept, gap, and the cache map and
\* clocks it leaves.
Hit(cache_map, el, ret) ==
    [ret |-> ret, raised |-> FALSE, net |-> FALSE, slept |-> 0, gap |-> 0,
     cache |-> cache_map, elapsed |-> el]

Raise(cache_map, req) ==
    [ret |-> <<>>, raised |-> TRUE, net |-> TRUE, slept |-> req.slept,
     gap |-> req.gap, cache |-> cache_map, elapsed |-> req.elapsed]

MutMiss(cache_map, req, key, value, ret) ==
    [ret |-> ret, raised |-> FALSE, net |-> TRUE, slept |-> req.slept,
     gap |-> req.gap,
     cache |-> IF ret = <<>> THEN cache_map ELSE Put(cache_map, key, value),
     elapsed |-> req.elapsed]
MutMissAfterSleep(cache_map, req, key, value, ret) ==
    [ret |-> IF req.slept > 0 THEN <<>> ELSE ret,
     raised |-> FALSE, net |-> TRUE, slept |-> req.slept,
     gap |-> req.gap, cache |-> Put(cache_map, key, value), elapsed |-> req.elapsed]
Miss(cache_map, req, key, value, ret) ==
    [ret |-> ret, raised |-> FALSE, net |-> TRUE, slept |-> req.slept,
     gap |-> req.gap, cache |-> Put(cache_map, key, value), elapsed |-> req.elapsed]

MutKey(query) == query
NomKey(query) == Lower(Strip(query))
WdSearchKey(query) == "wd_search::" \o Lower(Strip(query))
WdEntityKey(entity_id) == "wd_entity::" \o entity_id

\* cached if isinstance(cached, list) else []
CachedList(v) == IF v.kind = "list" THEN v.items ELSE <<>>

\* NominatimClient.search with _request
nominatim_search(cache_map, el, query, resp, over, dur) ==
    LET key == NomKey(query)
        req == Request("nom", el, resp, over, dur)
        results == IF resp.body.kind = "list" THEN resp.body.items ELSE <<>>
    IN IF key \in DOMAIN cache_map THEN Hit(cache_map, el, CachedList(cache_map[key]))
       ELSE IF resp.status = "error" THEN Raise(cache_map, req)
       ELSE Miss(cache_map, req, key, JList(results), results)

\* WikidataClient.search_entities with _request_json
search_entities(cache_map, el, query, resp, over, dur) ==
    LET key == WdSearchKey(query)
        req == Request("wd", el, resp, over, dur)
        results == IF resp.body.kind = "dict" /\ resp.body.search_ok
                   THEN resp.body.items ELSE <<>>
    IN IF key \in DOMAIN cache_map THEN Hit(cache_map, el, CachedList(cache_map[key]))
       ELSE IF resp.status = "error" THEN Raise(cache_map, req)
       ELSE Miss(cache_map, req, key, JList(results), results)

\* the cached branch of entity_coordinates: a pair, or <<>> for None
CachedCoords(v) ==
    IF v.kind = "dict" /\ v.lat # <<>> /\ v.lng # <<>> THEN <<v.lat[1], v.lng[1]>>
    ELSE <<>>

MutNegativeEntry == JCoords(<<0>>, <<0>>)
NegativeEntry == JCoords(<<>>, <<>>)

\* WikidataClient.entity_coordinates with _request_json
entity_coordinates(cache_map, el, entity_id, resp, over, dur) ==
    LET key == WdEntityKey(entity_id)
        req == Request("wd", el, resp, over, dur)
        found == resp.body.kind = "dict" /\ resp.body.p625 = "coords"
    IN IF key \in DOMAIN cache_map THEN Hit(cache_map, el, CachedCoords(cache_map[key]))
       ELSE IF resp.status = "error" THEN Raise(cache_map, req)
       ELSE IF resp.body.kind = "dict" /\ resp.body.p625 = "value_not_dict"
            THEN Raise(cache_map, req)
       ELSE IF found
            THEN Miss(cache_map, req, key,
                      JCoords(<<resp.body.lat>>, <<resp.body.lng>>),
                      <<resp.body.lat, resp.body.lng>>)
       ELSE Miss(cache_map, req, key, NegativeEntry, <<>>)

\* Nominatim.search of fetch_subregion_polygons: json.loads is not guarded, and
\* last_request is set after it
polygon_search(cache_map, el, query, resp, over, dur) ==
    LET key == NomKey(query)
        failed == resp.status = "error" \/ resp.body.kind = "malformed"
        req == Request("poly", el, IF failed THEN HttpError ELSE resp, over, dur)
        payload == IF resp.body.kind = "list" THEN resp.body.items ELSE <<>>
    IN IF key \in DOMAIN cache_map THEN Hit(cache_map, el, CachedList(cache_map[key]))
       ELSE IF failed THEN Raise(cache_map, req)
       ELSE Miss(cache_map, req, key, JList(payload), payload)

\* ------------------------------------------------------------------- state
VARIABLES
    pc,           \* where the running program stands
    prog,         \* what runs: "enrich" or "polygons", or the client under test
    cache,        \* NominatimClient.cache, the map WikidataClient.cache aliases
    cache_file,   \* data/geocode-cache.json
    poly_cache,   \* Nominatim.cache of fetch_subregion_polygons
    poly_file,    \* data/subregion-polygons-cache.json
    elapsed,      \* per client: time.time() - last_request, up to Cap
    ret,          \* what the last client call returned
    last,         \* the last client call: what was asked and what it did
    first_ret,    \* per operation and query: what its first call in this run returned
    net_calls,    \* per operation and query: network requests made in this run
    neg_found,    \* entity ids a network lookup of which found no coordinate claim
    neg_saved,    \* those of neg_found that a save_cache has written to the file
    payload,      \* json.loads of the input file args.input
    items,        \* load_items(args.input): the wines, each with producer and sub_region
    enriched,     \* the items of bourgogne-wines.enriched.json; <<>> until written
    region_geo,   \* run(): <<>> until set, then <<GeocodeResult>>
    sub_region_geo, \* run(): sub-region -> GeocodeResult
    producer_geo, \* run(): producer -> GeocodeResult
    idx,          \* run(): position in the loop over sub_regions / producers_sorted
    qi,           \* position in the list of queries of the tier being tried
    pending,      \* try_wikidata_producer: <<best>> while its coordinate is looked up
    sub_regions,  \* run(): [] until computed, then the sorted sub-region names
    producers_sorted, \* run(): [] until computed, then the sorted producer names
    attempts,     \* per entity: the phrasings and name variants tried so far, with outcome
    answered,     \* requests of this run that upstream answered with data
    calls,        \* the client calls of run(), in order, each with the entity it is for
    sc_kind,      \* the scorer applied: "geocode", "wikidata" or "polygon"
    sc_results,   \* its candidate list
    sc_producer,  \* its producer name (sub-region name for the polygon scorer)
    sc_region,    \* its expected region
    sc_status,    \* "input", then "returned" or "raised"
    sc_picked,    \* what it returned: <<>> for None, else <<the winner>>
    ft_retries,   \* fetch_text: its argument retries
    ft_pc,        \* fetch_text: "start", "attempt", "sleep", then how it ended
    ft_attempt,   \* fetch_text: the loop variable attempt
    ft_last_error, \* fetch_text: last_error, "None" until an attempt failed
    ft_tries,     \* fetch_text: calls of urlopen so far
    ft_slept,     \* fetch_text: the sleeps so far, in seconds
    hits,         \* the hits of the listing pages, in page order
    pages,        \* per wine id: what fetching and parsing its product page gives
    max_wines,    \* config.max_wines, 0 for None
    workers,      \* config.workers
    listing_items, \* main(): what collect_listing_hits returned
    fut,          \* per submitted future: "pending", "running", "finished", "yielded"
    fut_result,   \* per finished future: what fetch_product_and_merge returned
    merged_results, \* main(): merged_results
    raw_results,  \* main(): raw_results
    yield_order,  \* the futures in the order as_completed yielded them
    written       \* the "items" of the normalized output file, <<>> until written

clientVars == <<cache, cache_file, poly_cache, poly_file, elapsed, ret, last,
                first_ret, net_calls, neg_found, neg_saved>>

scoreVars == <<sc_kind, sc_results, sc_producer, sc_region, sc_status, sc_picked>>

runVars == <<payload, items, enriched, region_geo, sub_regions, sub_region_geo, producers_sorted,
             producer_geo, idx, qi, pending, attempts, answered, calls>>

fetchVars == <<ft_retries, ft_pc, ft_attempt, ft_last_error, ft_tries, ft_slept>>

scrapeVars == <<hits, pages, max_wines, workers, listing_items, fut, fut_result,
                merged_results, raw_results, yield_order, written>>

vars == <<pc, prog, clientVars, runVars, scoreVars, fetchVars, scrapeVars>>

NoResults == [k \in {} |-> GeocodeResult(0, 0, "", "", "", 0)]
NoAttempts == [k \in {} |-> <<>>]

NoPayload == [kind |-> "none", items_kind |-> "absent", entries |-> <<>>]

RunIdle ==
    /\ payload = NoPayload /\ enriched = <<>>
    /\ items = <<>> /\ region_geo = <<>> /\ sub_regions = <<>>
    /\ sub_region_geo = NoResults /\ producers_sorted = <<>>
    /\ producer_geo = NoResults /\ idx = 0 /\ qi = 0 /\ pending = <<>>
    /\ attempts = NoAttempts /\ answered = 0 /\ calls = <<>>

ScoreIdle ==
    /\ sc_kind = "none" /\ sc_results = <<>> /\ sc_producer = "" /\ sc_region = ""
    /\ sc_status = "none" /\ sc_picked = <<>>

\* ------------------------------------------------- bookkeeping of one call
\* The query as the caller sees it: two queries are the same when they differ
\* only in letter case or surrounding whitespace (entity ids: when equal).
QueryClass(op, query) == IF op = "entity" THEN query ELSE Lower(Strip(query))

NoCall == [op |-> "none", query |-> "", client |-> "none", net |-> FALSE,
           raised |-> FALSE, slept |-> 0, gap |-> 0, changed |-> FALSE,
           repeat |-> FALSE, known_absent |-> FALSE]

ClientOf(op) == IF op = "search" THEN "nom" ELSE IF op = "polygon" THEN "poly" ELSE "wd"

\* The effect of a client call on everything but the cache map it works on.
Record(op, query, before, out) ==
    LET id == <<op, QueryClass(op, query)>>
    IN /\ elapsed' = out.elapsed
       /\ ret' = out.ret
       /\ last' = [op |-> op, query |-> query, client |-> ClientOf(op),
                   net |-> out.net, raised |-> out.raised, slept |-> out.slept,
                   gap |-> out.gap,
                   changed |-> (out.cache # before \/ out.elapsed # elapsed),
                   repeat |-> id \in DOMAIN first_ret,
                   known_absent |-> (op = "entity" /\ query \in neg_found)]
       /\ first_ret' = IF out.raised \/ id \in DOMAIN first_ret THEN first_ret
                       ELSE (id :> [query |-> query, ret |-> out.ret]) @@ first_ret
       /\ net_calls' = IF ~out.net THEN net_calls
                       ELSE (id :> (IF id \in DOMAIN net_calls THEN net_calls[id] + 1
                                    ELSE 1)) @@ net_calls
       /\ neg_found' = IF op = "entity" /\ out.net /\ ~out.raised /\ out.ret = <<>>
                       THEN neg_found \cup {query} ELSE neg_found

\* A call on the shared map of the enrich program / on the polygon client's map.
CallShared(op, query, out) ==
    /\ Record(op, query, cache, out)
    /\ cache' = out.cache
    /\ UNCHANGED <<cache_file, poly_cache, poly_file, neg_saved>>

CallPolygon(query, out) ==
    /\ Record("polygon", query, poly_cache, out)
    /\ poly_cache' = out.cache
    /\ UNCHANGED <<cache, cache_file, poly_file, neg_saved>>

\* A new process: the clients are constructed, the cache is read from its file.
FreshClients ==
    /\ cache' = load_cache(cache_file)
    /\ poly_cache' = load_cache(poly_file)
    /\ elapsed' = [c \in Clients |-> Cap]
    /\ ret' = <<>>
    /\ last' = NoCall
    /\ first_ret' = [k \in {} |-> [query |-> "", ret |-> <<>>]]
    /\ net_calls' = [k \in {} |-> 0]
    /\ neg_found' = neg_saved
    /\ UNCHANGED <<cache_file, poly_file, neg_saved>>

\* Time passes.
Tick ==
    /\ pc \notin {"done", "crashed", "exit1"}
    /\ \E c \in Clients : elapsed[c] < Cap
    /\ elapsed' = Advance(elapsed, 1)
    /\ UNCHANGED <<pc, prog, cache, cache_file, poly_cache, poly_file, ret, last,
                   first_ret, net_calls, neg_found, neg_saved, runVars, scoreVars, fetchVars, scrapeVars>>

\* -------------------------------------------- the clients, called directly
\* Queries, entity ids and upstream answers the clients are exercised with.
ItemAuxerre == Item(<<47800>>, <<3570>>, "Auxerre, Yonne, Bourgogne, France",
                    "boundary", "administrative", "Polygon")
EntityRoux == Entity("Q1", "Domaine Roux", "winery in Burgundy, France")

ClientQueries == {"Ab", " aB ", "Cd"}
\* a geocode query of the program that uses both clients on the one cache map
SharedQueries == {"wd_search::Ab"}
ClientEntityQueries == {"Ab", " aB "}
ClientEntityIds == {"Q1"}
ClientListAnswers ==
    {HttpError, Malformed, JsonScalar, JsonList(<<>>), JsonList(<<ItemAuxerre>>)}
ClientSearchAnswers ==
    {HttpError, Malformed, JsonScalar, JsonNoSearch, JsonSearch(<<EntityRoux>>)}
ClientEntityAnswers ==
    {HttpError, Malformed, JsonScalar, JsonEntity("absent", 0, 0),
     JsonEntity("no_numbers", 0, 0), JsonEntity("value_not_dict", 0, 0),
     JsonEntity("coords", 47050, 4380)}

\* No caller in the repository catches what a client raises: the process ends.
AfterCall(out) == IF out.raised THEN "crashed" ELSE "client"

FetchIdle ==
    /\ ft_retries = 0 /\ ft_pc = "none" /\ ft_attempt = 0 /\ ft_last_error = "None"
    /\ ft_tries = 0 /\ ft_slept = <<>>

ScrapeIdle ==
    /\ hits = <<>> /\ pages = <<>> /\ max_wines = 0 /\ workers = 1
    /\ listing_items = <<>> /\ fut = <<>> /\ fut_result = <<>>
    /\ merged_results = <<>> /\ raw_results = <<>> /\ yield_order = <<>>
    /\ written = <<>>

ClientInit ==
    /\ pc = "client"
    /\ prog \in {"nominatim", "wikidata", "polygons", "shared"}
    /\ cache_file = NoFile
    /\ poly_file = NoFile
    /\ cache = load_cache(NoFile)
    /\ poly_cache = load_cache(NoFile)
    /\ elapsed = [c \in Clients |-> Cap]
    /\ ret = <<>>
    /\ last = NoCall
    /\ first_ret = [k \in {} |-> [query |-> "", ret |-> <<>>]]
    /\ net_calls = [k \in {} |-> 0]
    /\ neg_found = {}
    /\ neg_saved = {}
    /\ RunIdle
    /\ ScoreIdle
    /\ FetchIdle /\ ScrapeIdle

ClientNominatimSearch ==
    /\ pc = "client" /\ prog \in {"nominatim", "shared"}
    /\ \E query \in (IF prog = "shared" THEN SharedQueries ELSE ClientQueries),
          resp \in ClientListAnswers,
          over \in Overruns, dur \in Durations :
          LET out == nominatim_search(cache, elapsed, query, resp, over, dur)
          IN /\ CallShared("search", query, out)
             /\ pc' = AfterCall(out)
    /\ UNCHANGED <<prog, runVars, scoreVars, fetchVars, scrapeVars>>

ClientSearchEntities ==
    /\ pc = "client" /\ prog \in {"wikidata", "shared"}
    /\ \E query \in ClientEntityQueries, resp \in ClientSearchAnswers,
          over \in Overruns, dur \in Durations :
          LET out == search_entities(cache, elapsed, query, resp, over, dur)
          IN /\ CallShared("entities", query, out)
             /\ pc' = AfterCall(out)
    /\ UNCHANGED <<prog, runVars, scoreVars, fetchVars, scrapeVars>>

ClientEntityCoordinates ==
    /\ pc = "client" /\ prog = "wikidata"
    /\ \E entity_id \in ClientEntityIds, resp \in ClientEntityAnswers,
          over \in Overruns, dur \in Durations :
          LET out == entity_coordinates(cache, elapsed, entity_id, resp, over, dur)
          IN /\ CallShared("entity", entity_id, out)
             /\ pc' = AfterCall(out)
    /\ UNCHANGED <<prog, runVars, scoreVars, fetchVars, scrapeVars>>

ClientPolygonSearch ==
    /\ pc = "client" /\ prog = "polygons"
    /\ \E query \in ClientQueries, resp \in ClientListAnswers,
          over \in Overruns, dur \in Durations :
          LET out == polygon_search(poly_cache, elapsed, query, resp, over, dur)
          IN /\ CallPolygon(query, out)
             /\ pc' = AfterCall(out)
    /\ UNCHANGED <<prog, runVars, scoreVars, fetchVars, scrapeVars>>

\* The end of a run: client.save_cache() / api.save_cache()
ClientSave ==
    /\ pc = "client"
    /\ pc' = "done"
    /\ IF prog = "polygons"
       THEN poly_file' = save_cache(poly_cache) /\ UNCHANGED cache_file
       ELSE cache_file' = save_cache(cache) /\ UNCHANGED poly_file
    /\ neg_saved' = neg_saved \cup neg_found
    /\ UNCHANGED <<prog, cache, poly_cache, elapsed, ret, last, first_ret,
                   net_calls, neg_found, runVars, scoreVars, fetchVars, scrapeVars>>

\* The process is stopped while save_cache writes the file.
ClientSaveInterrupted ==
    /\ pc = "client"
    /\ pc' = "crashed"
    /\ IF prog = "polygons"
       THEN poly_file' = TornFile /\ UNCHANGED cache_file
       ELSE cache_file' = TornFile /\ UNCHANGED poly_file
    /\ neg_saved' = {}
    /\ UNCHANGED <<prog, cache, poly_cache, elapsed, ret, last, first_ret,
                   net_calls, neg_found, runVars, scoreVars, fetchVars, scrapeVars>>

\* The process is stopped (KeyboardInterrupt, kill) between two client calls.
ClientInterrupt ==
    /\ pc = "client"
    /\ pc' = "crashed"
    /\ UNCHANGED <<prog, clientVars, runVars, scoreVars, fetchVars, scrapeVars>>

\* The program is started again, on the cache file the earlier runs left.
ClientRestart ==
    /\ pc \in {"done", "crashed"}
    /\ pc' = "client"
    /\ FreshClients
    /\ UNCHANGED <<prog, runVars, scoreVars, fetchVars, scrapeVars>>

ClientNext ==
    \/ ClientNominatimSearch
    \/ ClientSearchEntities
    \/ ClientEntityCoordinates
    \/ ClientPolygonSearch
    \/ ClientSave
    \/ ClientSaveInterrupted
    \/ ClientInterrupt
    \/ ClientRestart
    \/ Tick

SpecClient == ClientInit /\ [][ClientNext]_vars

\* ------------------------------------------- the scorers, applied directly
NoCountry(item) == [item EXCEPT !.has_address = FALSE]

ItemChablis == Item(<<47810>>, <<3790>>, "Chablis, Yonne, Bourgogne, France",
                    "boundary", "administrative", "Polygon")
ItemChablisVillage == Item(<<47900>>, <<3800>>, "Chablis,  Bourgogne",
                           "place", "village", "MultiPolygon")
ItemWineShop == NoCountry(Item(<<47020>>, <<4840>>, "Cave des Vins", "shop", "wine", "Point"))
ItemJeanRoux == NoCountry(Item(<<47100>>, <<4900>>, "Jean Roux, Chablis", "", "", "Polygon"))
ItemNoCoords == Item(<<>>, <<>>, "Chablis wine, Bourgogne", "shop", "winery", "Polygon")
ItemBlank == NoCountry(Item(<<1000>>, <<2000>>, "", "", "", ""))
ItemWinery == Item(<<47030>>, <<4850>>, "Jean Roux Pere wine, Chablis, Bourgogne",
                   "shop", "winery", "Point")

EntityMaisonRoux == Entity("Q2", "Maison Roux", "wine producer, Bourgogne")
EntityRouxName == Entity("Q3", "Roux", "family name")
EntityNoId == Entity("", "Jean Roux winery", "")

ItemHotel == Item(<<47815>>, <<3795>>, "Hotel de Chablis, Yonne, Bourgogne",
                  "tourism", "hotel", "Polygon")

ScoreItems == {ItemChablis, ItemChablisVillage, ItemWineShop, ItemJeanRoux,
               ItemNoCoords, ItemBlank, ItemWinery, ItemHotel, NonDictItem}
ScoreEntities == {EntityRoux, EntityMaisonRoux, EntityRouxName, EntityNoId,
                  NonDictEntity}
ScoreProducers == {"", "Domaine Jean Roux Pere"}
ScoreRegions == {"", "Chablis"}

ListsOf(pool) == UNION {[1..n -> pool] : n \in 0..MaxCands}

ScoreInit ==
    /\ pc = "score" /\ prog = "score"
    /\ cache_file = NoFile /\ poly_file = NoFile
    /\ cache = EmptyMap /\ poly_cache = EmptyMap
    /\ elapsed = [c \in Clients |-> Cap]
    /\ ret = <<>> /\ last = NoCall
    /\ first_ret = [k \in {} |-> [query |-> "", ret |-> <<>>]]
    /\ net_calls = [k \in {} |-> 0]
    /\ neg_found = {} /\ neg_saved = {}
    /\ RunIdle
    /\ sc_kind \in {"geocode", "wikidata", "polygon"}
    /\ sc_results \in ListsOf(IF sc_kind = "wikidata" THEN ScoreEntities ELSE ScoreItems)
    /\ sc_producer \in (IF sc_kind = "polygon" THEN {"Chablis"} ELSE ScoreProducers)
    /\ sc_region \in (IF sc_kind = "geocode" THEN ScoreRegions ELSE {""})
    /\ sc_status = "input"
    /\ sc_picked = <<>>
    /\ FetchIdle /\ ScrapeIdle

Returned(raises, picked) ==
    /\ sc_status = "input"
    /\ sc_status' = IF raises THEN "raised" ELSE "returned"
    /\ sc_picked' = IF raises THEN <<>> ELSE picked
    /\ UNCHANGED <<pc, prog, clientVars, runVars, sc_kind, sc_results, sc_producer,
                   sc_region, fetchVars, scrapeVars>>

ApplyPickBestGeocode ==
    /\ sc_kind = "geocode"
    /\ Returned(sc_results # <<>> /\ PickGeocodeRaises(sc_results),
                pick_best_geocode(sc_results, sc_producer, sc_region))

ApplyPickBestWikidataEntity ==
    /\ sc_kind = "wikidata"
    /\ Returned(FALSE, pick_best_wikidata_entity(sc_results, sc_producer))

ApplyChoosePolygon ==
    /\ sc_kind = "polygon"
    /\ Returned(ChoosePolygonRaises(sc_results), choose_polygon(sc_results, sc_producer))

ScoreNext ==
    \/ ApplyPickBestGeocode
    \/ ApplyPickBestWikidataEntity
    \/ ApplyChoosePolygon

SpecScore == ScoreInit /\ [][ScoreNext]_vars

\* ------------------------------------------------- run(): the pipeline
Wine(producer, sub_region) == [producer |-> producer, sub_region |-> sub_region]

\* sorted({norm_text(i.get("sub_region")) for i in items if ...})
SubRegionNames == Sorted({norm_text(items[i].sub_region) : i \in 1..Len(items)} \ {""})

\* sorted(wines_by_producer)
ProducerNames == Sorted({norm_text(items[i].producer) : i \in 1..Len(items)} \ {""})

\* The non-empty sub-regions of a producer's wines, in input order.
SubRegionsOf(producer) ==
    LET F[i \in 0..Len(items)] ==
            IF i = 0 THEN <<>>
            ELSE IF norm_text(items[i].producer) = producer
                    /\ norm_text(items[i].sub_region) # ""
                 THEN Append(F[i - 1], norm_text(items[i].sub_region))
                 ELSE F[i - 1]
    IN F[Len(items)]

\* sub_counter.most_common(1)[0][0] if sub_counter else "": the highest
\* count, the first inserted among equal counts
primary_sub_region(producer) ==
    LET srs == SubRegionsOf(producer)
        Count(s) == Cardinality({j \in 1..Len(srs) : srs[j] = s})
    IN IF srs = <<>> THEN ""
       ELSE srs[CHOOSE i \in 1..Len(srs) :
                    /\ \A j \in 1..Len(srs) : Count(srs[j]) <= Count(srs[i])
                    /\ \A j \in 1..(i - 1) : Count(srs[j]) < Count(srs[i])]

MutSubRegionQueries(sub_region) == <<sub_region \o ", Bourgogne, France">>
MutSubRegionOrder(sub_region) ==
    <<sub_region \o ", Burgundy, France", sub_region \o ", Bourgogne, France">>
SubRegionQueries(sub_region) ==
    <<sub_region \o ", Bourgogne, France", sub_region \o ", Burgundy, France">>

SubRegionResult(picked, q) ==
    [picked EXCEPT !.query = q, !.source = "sub_region_geocode",
                   !.confidence = Max(picked.confidence, 700)]

MutProducerQueries(producer, primary) ==
    (IF primary # "" THEN <<producer \o ", " \o primary \o ", Bourgogne, France">>
     ELSE <<>>)
    \o <<producer \o ", Bourgogne, France",
         producer \o ", Burgundy, France",
         producer \o " winery, Bourgogne, France",
         producer \o " domaine, Bourgogne, France">>

ProducerQueries(producer, primary) ==
    (IF primary # "" THEN <<producer \o ", " \o primary \o ", Bourgogne, France">>
     ELSE <<>>)
    \o <<producer \o ", Bourgogne, France",
         producer \o " winery, Bourgogne, France",
         producer \o " domaine, Bourgogne, France",
         producer \o ", Burgundy, France">>

ProducerResult(picked, q) == [picked EXCEPT !.query = q, !.source = "producer_geocode"]

\* the name variants of try_wikidata_producer (names here are ASCII)
MutWikidataQueries(producer) ==
    <<producer, "Domaine " \o producer, "Maison " \o producer,
      "Chateau " \o producer, producer \o " winery", producer>>

WikidataQueries(producer) ==
    LET producer_l == Lower(producer)
    IN <<producer>>
       \o (IF Contains(producer_l, "domaine") THEN <<>> ELSE <<"Domaine " \o producer>>)
       \o (IF Contains(producer_l, "maison") THEN <<>> ELSE <<"Maison " \o producer>>)
       \o (IF Contains(producer_l, "chateau") THEN <<>> ELSE <<"Chateau " \o producer>>)
       \o <<producer \o " winery">>

WikidataResult(best, coords, query, producer) ==
    LET label == IF norm_text(best.label) # "" THEN norm_text(best.label) ELSE producer
        description == norm_text(best.description)
        display_name == IF description # "" THEN label \o " (" \o description \o ")"
                        ELSE label
    IN GeocodeResult(coords[1], coords[2], display_name, query, "producer_wikidata", 740)

HardcodedRegion ==
    GeocodeResult(47052, 4383, "Bourgogne, France", "hardcoded",
                  "hardcoded_region_fallback", 300)

MutSubRegionFallback(srg) ==
    GeocodeResult(srg.lng, srg.lat, srg.display_name, srg.query,
                  "producer_sub_region_fallback", 550)
SubRegionFallback(srg) ==
    GeocodeResult(srg.lat, srg.lng, srg.display_name, srg.query,
                  "producer_sub_region_fallback", 550)

MutRegionFallback(rg) ==
    GeocodeResult(47052, 4383, rg.display_name, rg.query,
                  "producer_region_fallback", 350)

RegionFallback(rg) ==
    GeocodeResult(rg.lat, rg.lng, rg.display_name, rg.query,
                  "producer_region_fallback", 350)

\* the elif / else of the producer loop
ProducerFallback(primary) ==
    IF primary \in DOMAIN sub_region_geo THEN SubRegionFallback(sub_region_geo[primary])
    ELSE RegionFallback(region_geo[1])

\* results[name] = geo
MutStore(results, name, geo) == results
MutStoreShared(results, name, geo) == [k \in DOMAIN results \cup {name} |-> geo]
Store(results, name, geo) == (name :> geo) @@ results

\* One phrasing of a geocode tier: pick_best_geocode(client.search(q), ...) on
\* what the call returned.
TryGeocode(out, producer_name, expected_region) ==
    LET crash == out.raised \/ PickGeocodeRaises(out.ret)
    IN [crash |-> crash,
        picked |-> IF crash THEN <<>>
                   ELSE pick_best_geocode(out.ret, producer_name, expected_region)]

Logged(key, tier, query, found) ==
    LET entry == [tier |-> tier, query |-> query, found |-> found]
    IN (key :> ((IF key \in DOMAIN attempts THEN attempts[key] ELSE <<>>) \o <<entry>>))
       @@ attempts

\* the for loop of try_geocode_producer, then `if not geo`
MutAfterGeocodeMiss(q_index, n) == "producer_wikidata"
AfterGeocodeMiss(q_index, n) ==
    IF q_index < n THEN "producer_geocode" ELSE "producer_wikidata"

\* The wines and the upstream answers run() is exercised with.  Upstream has
\* data for at most MaxFound of the requests of one run.
WinePool == {Wine("Jean  Roux Pere", "Pommard"), Wine(" Jean Roux Pere", "Chablis"),
             Wine("Roux", ""), Wine("", "Chablis")}

\* one entry of the "items" list of the input file: a dict, or anything else
DictEntry(w) == [is_dict |-> TRUE, producer |-> w.producer, sub_region |-> w.sub_region]
NonDictEntry == [is_dict |-> FALSE, producer |-> "", sub_region |-> ""]

\* the parsed input file: kind is "dict" or "other", items_kind tells whether
\* payload["items"] is absent, a list or any other value
Payload(kind, items_kind, entries) ==
    [kind |-> kind, items_kind |-> items_kind, entries |-> entries]

Payloads ==
    {Payload("dict", "list", [i \in 1..Len(ws) |-> DictEntry(ws[i])]) :
        ws \in UNION {[1..n -> WinePool] : n \in 0..MaxItems}} \cup
    {Payload("dict", "list", <<NonDictEntry>>)} \cup
    {Payload("dict", "list", <<NonDictEntry, DictEntry(w)>>) : w \in WinePool} \cup
    {Payload("other", "absent", <<>>), Payload("dict", "absent", <<>>),
     Payload("dict", "other", <<>>)}

\* items = payload.get("items", []) if isinstance(payload, dict) else []
RawItems(p) == IF p.kind = "dict" /\ p.items_kind # "absent" THEN p.entries ELSE <<>>

\* if not isinstance(items, list): raise ValueError
ItemsNotList(p) == p.kind = "dict" /\ p.items_kind = "other"

\* return [x for x in items if isinstance(x, dict)]
RECURSIVE DictItems(_)
DictItems(entries) ==
    IF entries = <<>> THEN <<>>
    ELSE IF Head(entries).is_dict
         THEN <<Wine(Head(entries).producer, Head(entries).sub_region)>>
                  \o DictItems(Tail(entries))
         ELSE DictItems(Tail(entries))

load_items(p) == DictItems(RawItems(p))

\* where run() goes after load_items: the ValueError escapes, `if not items:
\* return 1`, or the clients are constructed and the region is resolved
MutStartOutcome(p) ==
    IF ItemsNotList(p) THEN "crashed" ELSE "region"

StartOutcome(p) ==
    IF ItemsNotList(p) THEN "crashed"
    ELSE IF load_items(p) = <<>> THEN "exit1" ELSE "region"
RunPlaceAnswers ==
    {HttpError, JsonList(<<>>), JsonList(<<ItemChablis>>), JsonList(<<ItemAuxerre>>)}
RunProducerAnswers ==
    {HttpError, JsonList(<<>>), JsonList(<<ItemBlank>>), JsonList(<<ItemWinery>>),
     JsonList(<<NonDictItem>>)}
RunSearchAnswers ==
    {HttpError, JsonNoSearch, JsonSearch(<<EntityRoux>>), JsonSearch(<<EntityNoId>>)}
RunEntityAnswers ==
    {HttpError, JsonEntity("absent", 0, 0), JsonEntity("coords", 47050, 4380)}

HasData(resp) ==
    resp.status = "ok" /\ (resp.body.items # <<>> \/ resp.body.p625 = "coords")

\* The answer upstream may give to the request the call out made, if it made one.
Answers(pool, key) ==
    IF key \in DOMAIN cache THEN {HttpError}
    ELSE {resp \in pool : HasData(resp) => answered < MaxFound}

\* One more client call of run(), made while resolving the entity <<kind, name>>.
Called(kind, name, op, query) ==
    calls' = Append(calls, [kind |-> kind, name |-> name, op |-> op, query |-> query])

Answered(out, resp) ==
    answered' = IF out.net /\ HasData(resp) THEN answered + 1 ELSE answered

Init ==
    /\ pc = "start" /\ prog = "enrich"
    /\ cache_file = NoFile /\ poly_file = NoFile
    /\ cache = EmptyMap /\ poly_cache = EmptyMap
    /\ elapsed = [c \in Clients |-> Cap]
    /\ ret = <<>> /\ last = NoCall
    /\ first_ret = [k \in {} |-> [query |-> "", ret |-> <<>>]]
    /\ net_calls = [k \in {} |-> 0]
    /\ neg_found = {} /\ neg_saved = {}
    /\ payload \in Payloads /\ items = <<>> /\ enriched = <<>>
    /\ region_geo = <<>> /\ sub_regions = <<>> /\ sub_region_geo = NoResults
    /\ producers_sorted = <<>> /\ producer_geo = NoResults
    /\ idx = 0 /\ qi = 0 /\ pending = <<>> /\ attempts = NoAttempts /\ answered = 0
    /\ calls = <<>>
    /\ ScoreIdle
    /\ FetchIdle /\ ScrapeIdle

\* load_items, `if not items: return 1`, the two clients are constructed
RunStart ==
    /\ pc = "start"
    /\ pc' = StartOutcome(payload)
    /\ items' = IF ItemsNotList(payload) THEN items ELSE load_items(payload)
    /\ IF pc' = "region"
       THEN qi' = 1 /\ FreshClients
       ELSE qi' = qi /\ UNCHANGED clientVars
    /\ UNCHANGED <<prog, payload, enriched, region_geo, sub_regions, sub_region_geo,
                   producers_sorted, producer_geo, idx, pending, attempts, answered,
                   calls,                    scoreVars, fetchVars, scrapeVars>>

\* region_geo = try_geocode_subregion(client, "Bourgogne"), else the constant;
\* then sub_regions = sorted(...)
RegionStep(q, more, resp, out, t) ==
    /\ CallShared("search", q, out)
    /\ Answered(out, resp)
    /\ Called("region", "Bourgogne", "search", q)
    /\ IF t.crash
       THEN pc' = "crashed" /\ UNCHANGED <<region_geo, sub_regions, idx, qi, attempts>>
       ELSE /\ attempts' = Logged(<<"region", "Bourgogne">>, "geocode", q, t.picked # <<>>)
            /\ region_geo' = IF t.picked # <<>> THEN <<SubRegionResult(t.picked[1], q)>>
                             ELSE IF more THEN region_geo
                             ELSE <<HardcodedRegion>>
            /\ IF t.picked = <<>> /\ more
               THEN pc' = "region" /\ qi' = qi + 1 /\ UNCHANGED <<sub_regions, idx>>
               ELSE pc' = "subregion" /\ qi' = 1 /\ idx' = 1
                    /\ sub_regions' = SubRegionNames

RegionAsk(q, resp) ==
    LET out == nominatim_search(cache, elapsed, q, resp, 0, 0)
    IN RegionStep(q, qi < Len(SubRegionQueries("Bourgogne")), resp, out,
                  TryGeocode(out, "", "Bourgogne"))

RunRegion ==
    /\ pc = "region"
    /\ LET q == SubRegionQueries("Bourgogne")[qi]
       IN \E resp \in Answers(RunPlaceAnswers, NomKey(q)) : RegionAsk(q, resp)
    /\ UNCHANGED <<prog, payload, items, enriched, sub_region_geo, producers_sorted, producer_geo,
                   pending, scoreVars, fetchVars, scrapeVars>>

\* one phrasing of try_geocode_subregion(client, sr) in the sub-region loop
SubRegionStep(sr, q, more, resp, out, t) ==
    /\ CallShared("search", q, out)
    /\ Answered(out, resp)
    /\ Called("sub_region", sr, "search", q)
    /\ IF t.crash
       THEN pc' = "crashed" /\ UNCHANGED <<sub_region_geo, idx, qi, attempts>>
       ELSE /\ attempts' = Logged(<<"sub_region", sr>>, "geocode", q, t.picked # <<>>)
            /\ sub_region_geo' =
                  IF t.picked # <<>>
                  THEN Store(sub_region_geo, sr, SubRegionResult(t.picked[1], q))
                  ELSE sub_region_geo
            /\ pc' = "subregion"
            /\ idx' = IF t.picked = <<>> /\ more THEN idx ELSE idx + 1
            /\ qi' = IF t.picked = <<>> /\ more THEN qi + 1 ELSE 1

SubRegionAsk(sr, q, resp) ==
    LET out == nominatim_search(cache, elapsed, q, resp, 0, 0)
    IN SubRegionStep(sr, q, qi < Len(SubRegionQueries(sr)), resp, out,
                     TryGeocode(out, "", sr))

RunSubRegion ==
    /\ pc = "subregion"
    /\ idx <= Len(sub_regions)
    /\ LET q == SubRegionQueries(sub_regions[idx])[qi]
       IN \E resp \in Answers(RunPlaceAnswers, NomKey(q)) :
             SubRegionAsk(sub_regions[idx], q, resp)
    /\ UNCHANGED <<prog, payload, items, enriched, region_geo, sub_regions, producers_sorted, producer_geo,
                   pending, scoreVars, fetchVars, scrapeVars>>

\* after the sub-region loop: wines_by_producer, producers_sorted
RunGroupProducers ==
    /\ pc = "subregion"
    /\ idx > Len(sub_regions)
    /\ pc' = "producer_geocode"
    /\ producers_sorted' = ProducerNames
    /\ idx' = 1
    /\ qi' = 1
    /\ UNCHANGED <<prog, clientVars, payload, items, enriched, region_geo, sub_regions, sub_region_geo,
                   producer_geo, pending, attempts, answered, calls, scoreVars, fetchVars, scrapeVars>>

\* one phrasing of try_geocode_producer(client, producer, primary_sub_region)
ProducerStep(producer, q, next, resp, out, t) ==
    /\ CallShared("search", q, out)
    /\ Answered(out, resp)
    /\ Called("producer", producer, "search", q)
    /\ IF t.crash
       THEN pc' = "crashed" /\ UNCHANGED <<producer_geo, idx, qi, attempts>>
       ELSE /\ attempts' = Logged(<<"producer", producer>>, "geocode", q, t.picked # <<>>)
            /\ producer_geo' =
                  IF t.picked # <<>>
                  THEN Store(producer_geo, producer, ProducerResult(t.picked[1], q))
                  ELSE producer_geo
            /\ pc' = IF t.picked # <<>> THEN "producer_geocode" ELSE next
            /\ idx' = IF t.picked # <<>> THEN idx + 1 ELSE idx
            /\ qi' = IF t.picked = <<>> /\ next = "producer_geocode" THEN qi + 1 ELSE 1

ProducerAsk(producer, primary, queries, resp) ==
    LET out == nominatim_search(cache, elapsed, queries[qi], resp, 0, 0)
    IN ProducerStep(producer, queries[qi], AfterGeocodeMiss(qi, Len(queries)), resp,
                    out, TryGeocode(out, producer, primary))

ProducerTry(producer, primary, queries) ==
    \E resp \in Answers(RunProducerAnswers, NomKey(queries[qi])) :
        ProducerAsk(producer, primary, queries, resp)

RunProducerGeocode ==
    /\ pc = "producer_geocode"
    /\ idx <= Len(producers_sorted)
    /\ LET primary == primary_sub_region(producers_sorted[idx])
       IN ProducerTry(producers_sorted[idx], primary,
                      ProducerQueries(producers_sorted[idx], primary))
    /\ UNCHANGED <<prog, payload, items, enriched, region_geo, sub_regions, sub_region_geo,
                   producers_sorted, pending, scoreVars, fetchVars, scrapeVars>>

\* The name variant at qi of try_wikidata_producer gave nothing: the next
\* variant, or, after the last, the fallback of the producer loop.
MutVariantFailed(producer, query, more) ==
    /\ attempts' = Logged(<<"producer", producer>>, "wikidata", query, FALSE)
    /\ pending' = <<>>
    /\ producer_geo' = Store(producer_geo, producer,
                             ProducerFallback(primary_sub_region(producer)))
    /\ pc' = "producer_geocode"
    /\ idx' = idx + 1
    /\ qi' = 1

VariantFailed(producer, query, more) ==
    /\ attempts' = Logged(<<"producer", producer>>, "wikidata", query, FALSE)
    /\ pending' = <<>>
    /\ producer_geo' =
          IF more THEN producer_geo
          ELSE Store(producer_geo, producer,
                     ProducerFallback(primary_sub_region(producer)))
    /\ pc' = IF more THEN "producer_wikidata" ELSE "producer_geocode"
    /\ idx' = IF more THEN idx ELSE idx + 1
    /\ qi' = IF more THEN qi + 1 ELSE 1

\* try_wikidata_producer: search_entities(query), pick_best_wikidata_entity
WikidataStep(producer, queries, resp, out, best) ==
    /\ CallShared("entities", queries[qi], out)
    /\ Answered(out, resp)
    /\ Called("producer", producer, "entities", queries[qi])
    /\ IF out.raised
       THEN pc' = "crashed" /\ UNCHANGED <<producer_geo, idx, qi, pending, attempts>>
       ELSE IF best # <<>> /\ norm_text(best[1].id) # ""
       THEN pc' = "producer_entity" /\ pending' = best
            /\ UNCHANGED <<producer_geo, idx, qi, attempts>>
       ELSE VariantFailed(producer, queries[qi], qi < Len(queries))

WikidataAsk(producer, queries, resp) ==
    LET out == search_entities(cache, elapsed, queries[qi], resp, 0, 0)
    IN WikidataStep(producer, queries, resp, out,
                    pick_best_wikidata_entity(out.ret, producer))

WikidataTry(producer, queries) ==
    \E resp \in Answers(RunSearchAnswers, WdSearchKey(queries[qi])) :
        WikidataAsk(producer, queries, resp)

RunProducerWikidata ==
    /\ pc = "producer_wikidata"
    /\ WikidataTry(producers_sorted[idx], WikidataQueries(producers_sorted[idx]))
    /\ UNCHANGED <<prog, payload, items, enriched, region_geo, sub_regions, sub_region_geo,
                   producers_sorted, scoreVars, fetchVars, scrapeVars>>

\* try_wikidata_producer: entity_coordinates(entity_id) of the best entity
EntityStep(producer, queries, entity_id, resp, out) ==
    /\ CallShared("entity", entity_id, out)
    /\ Answered(out, resp)
    /\ Called("producer", producer, "entity", entity_id)
    /\ IF out.raised
       THEN pc' = "crashed" /\ UNCHANGED <<producer_geo, idx, qi, pending, attempts>>
       ELSE IF out.ret # <<>>
       THEN /\ attempts' = Logged(<<"producer", producer>>, "wikidata", queries[qi], TRUE)
            /\ producer_geo' =
                  Store(producer_geo, producer,
                        WikidataResult(pending[1], out.ret, queries[qi], producer))
            /\ pending' = <<>>
            /\ pc' = "producer_geocode"
            /\ idx' = idx + 1
            /\ qi' = 1
       ELSE VariantFailed(producer, queries[qi], qi < Len(queries))

EntityTry(producer, queries, entity_id) ==
    \E resp \in Answers(RunEntityAnswers, WdEntityKey(entity_id)) :
        EntityStep(producer, queries, entity_id, resp,
                   entity_coordinates(cache, elapsed, entity_id, resp, 0, 0))

RunProducerEntity ==
    /\ pc = "producer_entity"
    /\ EntityTry(producers_sorted[idx], WikidataQueries(producers_sorted[idx]),
                 norm_text(pending[1].id))
    /\ UNCHANGED <<prog, payload, items, enriched, region_geo, sub_regions, sub_region_geo,
                   producers_sorted, scoreVars, fetchVars, scrapeVars>>

\* enriched["map"] = {"lat", "lng", "source", "confidence"} on a copy of the wine
MapRecord(wine, lat, lng, source, confidence) ==
    [producer |-> wine.producer, sub_region |-> wine.sub_region,
     map |-> [lat |-> lat, lng |-> lng, source |-> source, confidence |-> confidence]]

\* the wine-level enrichment of one item: the sub-region result, else the
\* producer result, else the region result
Enrich(wine, sub_geo, prod_geo, region) ==
    LET producer == norm_text(wine.producer)
        sub_region == norm_text(wine.sub_region)
    IN IF sub_region # "" /\ sub_region \in DOMAIN sub_geo
       THEN MapRecord(wine, sub_geo[sub_region].lat, sub_geo[sub_region].lng,
                      "sub_region", Max(680, sub_geo[sub_region].confidence))
       ELSE IF producer # "" /\ producer \in DOMAIN prod_geo
       THEN MapRecord(wine, prod_geo[producer].lat, prod_geo[producer].lng,
                      "producer", Max(500, prod_geo[producer].confidence))
       ELSE MapRecord(wine, region.lat, region.lng, "region", 300)

\* enriched_items, in the order of the input (the items carry no "id", so the
\* stable sort on (id is None, id) keeps that order)
EnrichedItems ==
    [i \in 1..Len(items) |-> Enrich(items[i], sub_region_geo, producer_geo, region_geo[1])]

\* every producer is done: the enrichment, the output files, client.save_cache()
RunFinish ==
    /\ pc = "producer_geocode"
    /\ idx > Len(producers_sorted)
    /\ pc' = "done"
    /\ enriched' = EnrichedItems
    /\ cache_file' = save_cache(cache)
    /\ neg_saved' = neg_saved \cup neg_found
    /\ UNCHANGED <<prog, cache, poly_cache, poly_file, elapsed, ret, last, first_ret,
                   net_calls, neg_found, payload, items, region_geo, sub_regions,
                   sub_region_geo, producers_sorted, producer_geo, idx, qi, pending,
                   attempts, answered, calls, scoreVars, fetchVars, scrapeVars>>

Next ==
    \/ RunStart
    \/ RunRegion
    \/ RunSubRegion
    \/ RunGroupProducers
    \/ RunProducerGeocode
    \/ RunProducerWikidata
    \/ RunProducerEntity
    \/ RunFinish

Spec == Init /\ [][Next]_vars

\* ------------------------------------------------- claims on the pipeline
InputProducers == {norm_text(items[i].producer) : i \in 1..Len(items)} \ {""}
InputSubRegions == {norm_text(items[i].sub_region) : i \in 1..Len(items)} \ {""}

InProducerLoop == pc \in {"producer_geocode", "producer_wikidata", "producer_entity"}

\* The entities a loop of run() is through with, every call having returned.
ProcessedSubRegions ==
    IF pc = "subregion" THEN {sub_regions[k] : k \in 1..(idx - 1)}
    ELSE IF InProducerLoop \/ pc = "done" THEN InputSubRegions
    ELSE {}

ProcessedProducers ==
    IF InProducerLoop \/ pc = "done" THEN {producers_sorted[k] : k \in 1..(idx - 1)}
    ELSE {}

ProducerSources == {"producer_geocode", "producer_wikidata",
                    "producer_sub_region_fallback", "producer_region_fallback"}

Tried(kind, name) ==
    IF <<kind, name>> \in DOMAIN attempts THEN attempts[<<kind, name>>] ELSE <<>>

\* C1: every producer the producer loop is through with has a result in
\* producer_geo, from one of the four producer tiers; no result belongs to a
\* producer not yet processed, and at the end every input producer has one.
C1_EveryProducerResolved ==
    /\ \A p \in ProcessedProducers :
          p \in DOMAIN producer_geo /\ producer_geo[p].source \in ProducerSources
    /\ pc # "crashed" => DOMAIN producer_geo \subseteq ProcessedProducers
    /\ pc = "done" => ProcessedProducers = InputProducers

C1_Witness ==
    /\ pc = "done"
    /\ \E p, r \in InputProducers :
          /\ producer_geo[p].source = "producer_wikidata"
          /\ producer_geo[r].source = "producer_region_fallback"

AllResults ==
    {region_geo[k] : k \in 1..Len(region_geo)}
    \cup {sub_region_geo[sr] : sr \in DOMAIN sub_region_geo}
    \cup {producer_geo[p] : p \in DOMAIN producer_geo}

\* C3: the confidence (in thousandths) of every result of the pipeline is in
\* the range of its tier.
C3_ConfidenceInRange ==
    \A r \in AllResults :
        /\ r.confidence >= 0 /\ r.confidence <= 1000
        /\ r.source \in {"producer_geocode", "sub_region_geocode", "producer_wikidata"}
              => r.confidence >= 200 /\ r.confidence <= 980
        /\ r.source = "producer_sub_region_fallback" => r.confidence = 550
        /\ r.source = "producer_region_fallback" => r.confidence = 350
        /\ r.source = "hardcoded_region_fallback" => r.confidence = 300
        /\ r.source \in ProducerSources \cup {"sub_region_geocode",
                                              "hardcoded_region_fallback"}

C3_Witness ==
    /\ pc = "done"
    /\ region_geo[1].source = "hardcoded_region_fallback"
    /\ \E p, r \in DOMAIN producer_geo :
          /\ producer_geo[p].source = "producer_geocode" /\ producer_geo[p].confidence = 200
          /\ producer_geo[r].source = "producer_geocode" /\ producer_geo[r].confidence = 980

\* What the log of a producer shows of its tiers.
GeocodeFailed(p) ==
    LET tried == Tried("producer", p)
        queries == ProducerQueries(p, primary_sub_region(p))
    IN /\ Len(tried) >= Len(queries)
       /\ \A k \in 1..Len(queries) :
             tried[k] = [tier |-> "geocode", query |-> queries[k], found |-> FALSE]

WikidataFailed(p) ==
    LET tried == Tried("producer", p)
        n == Len(ProducerQueries(p, primary_sub_region(p)))
        queries == WikidataQueries(p)
    IN /\ Len(tried) = n + Len(queries)
       /\ \A k \in 1..Len(queries) :
             tried[n + k] = [tier |-> "wikidata", query |-> queries[k], found |-> FALSE]

\* C7: the knowledge base is consulted for a producer only after every geocode
\* phrasing failed; the sub-region fallback is used only after both tiers
\* failed and the primary sub-region has a result; the region fallback only
\* after both tiers failed and the primary sub-region has none.
C7_TiersInOrder ==
    /\ pc \in {"producer_wikidata", "producer_entity"} => GeocodeFailed(producers_sorted[idx])
    /\ \A key \in DOMAIN attempts :
          key[1] = "producer" /\ (\E k \in 1..Len(attempts[key]) :
                                      attempts[key][k].tier = "wikidata")
             => GeocodeFailed(key[2])
    /\ \A p \in DOMAIN producer_geo :
          /\ producer_geo[p].source = "producer_wikidata" => GeocodeFailed(p)
          /\ producer_geo[p].source = "producer_sub_region_fallback"
                => /\ GeocodeFailed(p) /\ WikidataFailed(p)
                   /\ primary_sub_region(p) \in DOMAIN sub_region_geo
          /\ producer_geo[p].source = "producer_region_fallback"
                => /\ GeocodeFailed(p) /\ WikidataFailed(p)
                   /\ primary_sub_region(p) \notin DOMAIN sub_region_geo

C7_Witness ==
    \E p, r \in DOMAIN producer_geo :
        /\ producer_geo[p].source = "producer_sub_region_fallback"
        /\ producer_geo[r].source = "producer_region_fallback"

\* C8: a producer whose geocode and knowledge-base tiers both failed and whose
\* primary sub-region has a result gets that result's coordinates, as
\* producer_sub_region_fallback with confidence 0.55.
C8_FallbackMonotone ==
    \A p \in DOMAIN producer_geo :
        LET primary == primary_sub_region(p)
        IN (GeocodeFailed(p) /\ WikidataFailed(p) /\ primary \in DOMAIN sub_region_geo)
           => /\ producer_geo[p].source = "producer_sub_region_fallback"
              /\ producer_geo[p].confidence = 550
              /\ producer_geo[p].lat = sub_region_geo[primary].lat
              /\ producer_geo[p].lng = sub_region_geo[primary].lng

C8_Witness ==
    \E p \in DOMAIN producer_geo :
        /\ producer_geo[p].source = "producer_sub_region_fallback"
        /\ \E other \in DOMAIN sub_region_geo :
              /\ other # primary_sub_region(p)
              /\ sub_region_geo[other].lat # producer_geo[p].lat

\* The client call run() makes next: <<operation, query, answers upstream may
\* give>>, or <<>> where it makes none.
NextCall ==
    IF pc = "region"
    THEN <<"search", SubRegionQueries("Bourgogne")[qi], RunPlaceAnswers>>
    ELSE IF pc = "subregion" /\ idx <= Len(sub_regions)
    THEN <<"search", SubRegionQueries(sub_regions[idx])[qi], RunPlaceAnswers>>
    ELSE IF pc = "producer_geocode" /\ idx <= Len(producers_sorted)
    THEN <<"search",
           ProducerQueries(producers_sorted[idx],
                           primary_sub_region(producers_sorted[idx]))[qi],
           RunProducerAnswers>>
    ELSE IF pc = "producer_wikidata"
    THEN <<"entities", WikidataQueries(producers_sorted[idx])[qi], RunSearchAnswers>>
    ELSE IF pc = "producer_entity"
    THEN <<"entity", norm_text(pending[1].id), RunEntityAnswers>>
    ELSE <<>>

ClientCall(op, el, query, resp, over, dur) ==
    IF op = "search" THEN nominatim_search(cache, el, query, resp, over, dur)
    ELSE IF op = "entities" THEN search_entities(cache, el, query, resp, over, dur)
    ELSE entity_coordinates(cache, el, query, resp, over, dur)

\* What of a client call the pipeline can see: all but the clocks.
CallData(out) ==
    [ret |-> out.ret, raised |-> out.raised, net |-> out.net, cache |-> out.cache]

TimingFree(op, query, pool) ==
    \A resp \in pool, e \in 0..Cap, over \in Overruns, dur \in Durations :
        CallData(ClientCall(op, [elapsed EXCEPT ![ClientOf(op)] = e], query, resp,
                            over, dur))
          = CallData(ClientCall(op, elapsed, query, resp, 0, 0))

FatalInput(p) ==
    \/ p.kind # "dict"
    \/ p.items_kind # "list"
    \/ \A i \in 1..Len(p.entries) : ~p.entries[i].is_dict

\* C15: on an input without a dict item the run ends with a non-zero status
\* (return 1 or the escaping ValueError) before any client is used: no call,
\* no request, no sleep, no cache loaded or written, no output written.
C15_FatalInputStopsEarly ==
    (prog = "enrich" /\ FatalInput(payload) /\ pc # "start") =>
        /\ pc \in {"exit1", "crashed"}
        /\ last = NoCall /\ ret = <<>>
        /\ DOMAIN net_calls = {} /\ DOMAIN first_ret = {}
        /\ elapsed = [c \in Clients |-> Cap]
        /\ cache = EmptyMap /\ cache_file = NoFile /\ poly_file = NoFile
        /\ region_geo = <<>> /\ DOMAIN attempts = {}
        /\ enriched = <<>>

C15_Witness ==
    /\ pc = "exit1"
    /\ payload.items_kind = "list"
    /\ Len(payload.entries) > 0
    /\ FatalInput(payload)

\* The enriched list has one record per input item, in the order of the input,
\* with the coordinates, source and confidence of the first of: the result of
\* the item's sub-region, the result of its producer, the region result.
RecordFor(rec, wine) ==
    LET producer == norm_text(wine.producer)
        sub_region == norm_text(wine.sub_region)
        by_sub == sub_region \in DOMAIN sub_region_geo \ {""}
        by_prod == producer \in DOMAIN producer_geo \ {""}
        m == rec.map
    IN /\ rec.producer = wine.producer /\ rec.sub_region = wine.sub_region
       /\ m.source \in {"sub_region", "producer", "region"}
       /\ m.source = "sub_region" <=> by_sub
       /\ m.source = "producer" <=> (~by_sub /\ by_prod)
       /\ m.source = "sub_region" =>
             /\ <<m.lat, m.lng>> = <<sub_region_geo[sub_region].lat,
                                     sub_region_geo[sub_region].lng>>
             /\ m.confidence = Max(680, sub_region_geo[sub_region].confidence)
       /\ m.source = "producer" =>
             /\ <<m.lat, m.lng>> = <<producer_geo[producer].lat,
                                     producer_geo[producer].lng>>
             /\ m.confidence = Max(500, producer_geo[producer].confidence)
       /\ m.source = "region" =>
             /\ <<m.lat, m.lng>> = <<region_geo[1].lat, region_geo[1].lng>>
             /\ m.confidence = 300

EnrichedComplete ==
    /\ Len(enriched) = Len(load_items(payload))
    /\ \A i \in 1..Len(enriched) : RecordFor(enriched[i], load_items(payload)[i])

\* The part of C16 about the list that is written: a run that reaches its end
\* writes a complete list.
WrittenListComplete == pc = "done" => EnrichedComplete

WrittenListWitness ==
    /\ pc = "done"
    /\ \E i, j \in 1..Len(enriched) :
          /\ enriched[i].map.source = "producer"
          /\ enriched[j].map.source = "region"

\* C16: a run on an input with a dict item produces output for every item:
\* once it has ended, the enriched list has exactly one record per input item,
\* with coordinates, a confidence and a source chosen in the order sub-region,
\* producer, region, whatever the outcomes of the lookups were.
C16_OutputForEveryItem ==
    (prog = "enrich" /\ ~FatalInput(payload) /\ pc \in {"done", "crashed"})
        => EnrichedComplete

\* The k-th phrasing of a place name, as C17 states the order.
PlacePhrasing(name, k) ==
    IF k = 1 THEN name \o ", Bourgogne, France" ELSE name \o ", Burgundy, France"

\* What the scorer made of the answer to query q, looked up for place `name`.
ScoredFor(q, name) ==
    pick_best_geocode(first_ret[<<"search", QueryClass("search", q)>>].ret, "", name)

\* g is the result of the last phrasing tried for `name`, floored at 0.7.
FromLastPhrasing(g, name, tried) ==
    LET q == tried[Len(tried)].query
        scored == ScoredFor(q, name)
    IN /\ tried[Len(tried)].found
       /\ scored # <<>>
       /\ g.query = q
       /\ g.source = "sub_region_geocode"
       /\ <<g.lat, g.lng>> = <<scored[1].lat, scored[1].lng>>
       /\ g.confidence = Max(scored[1].confidence, 700)
       /\ g.confidence >= 700 /\ g.confidence <= 980

\* C17: the sub-region pipeline (run on every sub-region and on the region
\* name) asks "<name>, Bourgogne, France" first and "<name>, Burgundy, France"
\* only after the first gave no scored candidate; its result is that of the
\* first phrasing with a scored candidate, with that phrasing as query, source
\* sub_region_geocode and confidence max(scorer's confidence, 0.7).
C17_SubRegionPhrasingOrder ==
    \A key \in DOMAIN attempts :
        key[1] \in {"sub_region", "region"} =>
            LET tried == attempts[key]
                name == key[2]
            IN /\ Len(tried) \in 1..2
               /\ \A k \in 1..Len(tried) :
                     /\ tried[k].query = PlacePhrasing(name, k)
                     /\ k < Len(tried) => ~tried[k].found
               /\ key[1] = "sub_region" =>
                     /\ tried[Len(tried)].found <=> name \in DOMAIN sub_region_geo
                     /\ name \in DOMAIN sub_region_geo
                           => FromLastPhrasing(sub_region_geo[name], name, tried)
               /\ (key[1] = "region" /\ tried[Len(tried)].found)
                     => FromLastPhrasing(region_geo[1], name, tried)

C17_Witness ==
    \E sr \in DOMAIN sub_region_geo :
        /\ Len(Tried("sub_region", sr)) = 2
        /\ sub_region_geo[sr].query = sr \o ", Burgundy, France"
        /\ ScoredFor(sub_region_geo[sr].query, sr)[1].confidence < 700
        /\ sub_region_geo[sr].confidence = 700

\* The region result is there before anything else is looked up; it is what
\* the sub-region pipeline found for "Bourgogne", else the hardcoded point; the
\* region fallback of a producer copies its coordinates.
RegionResolved ==
    LET tried == Tried("region", "Bourgogne")
    IN /\ (region_geo = <<>>) =>
             /\ DOMAIN attempts \subseteq {<<"region", "Bourgogne">>}
             /\ DOMAIN sub_region_geo = {} /\ DOMAIN producer_geo = {}
             /\ \A id \in DOMAIN first_ret :
                   id[1] = "search" /\
                   \E k \in 1..2 : first_ret[id].query = PlacePhrasing("Bourgogne", k)
       /\ (region_geo # <<>>) =>
             /\ Len(region_geo) = 1
             /\ \A k \in 1..Len(tried) : tried[k].query = PlacePhrasing("Bourgogne", k)
             /\ IF tried[Len(tried)].found
                THEN region_geo[1].source = "sub_region_geocode"
                     /\ region_geo[1].query = tried[Len(tried)].query
                ELSE /\ Len(tried) = 2
                     /\ <<region_geo[1].lat, region_geo[1].lng>> = <<47052, 4383>>
                     /\ region_geo[1].source = "hardcoded_region_fallback"
                     /\ region_geo[1].confidence = 300
       /\ \A p \in DOMAIN producer_geo :
             producer_geo[p].source = "producer_region_fallback" =>
                 /\ <<producer_geo[p].lat, producer_geo[p].lng>>
                       = <<region_geo[1].lat, region_geo[1].lng>>
                 /\ producer_geo[p].confidence = 350

\* C18: the region result is resolved exactly once per run, before any
\* sub-region or producer, by the sub-region pipeline on "Bourgogne", else it
\* is the hardcoded (47.052, 4.383) with source hardcoded_region_fallback and
\* confidence 0.3; once set it never changes and no further region lookup is
\* made; every producer_region_fallback result carries its coordinates with
\* confidence 0.35.
C18_RegionResolvedOnce ==
    [][/\ RegionResolved /\ RegionResolved'
       /\ (region_geo # <<>>) =>
             /\ region_geo' = region_geo
             /\ Tried("region", "Bourgogne")' = Tried("region", "Bourgogne")]_vars

C18_Witness ==
    /\ pc = "done"
    /\ region_geo[1].source = "hardcoded_region_fallback"
    /\ \E p \in DOMAIN producer_geo : producer_geo[p].source = "producer_region_fallback"

\* the same with a geocoded region result
RegionGeocodedWitness ==
    /\ pc = "done"
    /\ region_geo[1].source = "sub_region_geocode"
    /\ \E p \in DOMAIN producer_geo : producer_geo[p].source = "producer_region_fallback"

\* The geocode phrasings tried for a producer, in the order of the calls.
GeoTried(producer) ==
    SelectSeq(Tried("producer", producer), LAMBDA e : e.tier = "geocode")

\* The phrasing seeded with the most-common sub-region, when there is one.
SeededPhrasing(producer) ==
    IF primary_sub_region(producer) # ""
    THEN <<producer \o ", " \o primary_sub_region(producer) \o ", Bourgogne, France">>
    ELSE <<>>

\* The phrasings tried for `producer` are the first ones of `order`, each one
\* tried only after all earlier ones found nothing.
TriedInOrder(producer, order) ==
    LET tried == GeoTried(producer)
    IN /\ Len(tried) <= Len(order)
       /\ \A k \in 1..Len(tried) :
             /\ tried[k].query = order[k]
             /\ k < Len(tried) => ~tried[k].found

\* C19, as stated: seeded phrasing, then "<producer>, Bourgogne, France" and
\* "<producer>, Burgundy, France", and only then the "winery" and "domaine"
\* phrasings.
C19_GenericBeforeSuffixes ==
    \A key \in DOMAIN attempts :
        key[1] = "producer" =>
            TriedInOrder(key[2],
                SeededPhrasing(key[2]) \o
                <<key[2] \o ", Bourgogne, France",
                  key[2] \o ", Burgundy, France",
                  key[2] \o " winery, Bourgogne, France",
                  key[2] \o " domaine, Bourgogne, France">>)

\* C19, amended: seeded phrasing, then "<producer>, Bourgogne, France", then
\* the "winery" and "domaine" phrasings, and "<producer>, Burgundy, France"
\* last; each one only if all earlier ones produced no scored candidate.
C19_BurgundyLast ==
    \A key \in DOMAIN attempts :
        key[1] = "producer" =>
            TriedInOrder(key[2],
                SeededPhrasing(key[2]) \o
                <<key[2] \o ", Bourgogne, France",
                  key[2] \o " winery, Bourgogne, France",
                  key[2] \o " domaine, Bourgogne, France",
                  key[2] \o ", Burgundy, France">>)

C19_Witness ==
    \E p \in DOMAIN producer_geo :
        /\ primary_sub_region(p) # ""
        /\ Len(GeoTried(p)) = 5
        /\ GeoTried(p)[5].found
        /\ producer_geo[p].query = p \o ", Burgundy, France"

\* The name variants tried for a producer in the knowledge-base tier.
WdTried(producer) ==
    SelectSeq(Tried("producer", producer), LAMBDA e : e.tier = "wikidata")

\* The arg-max entity of the search for `query`, and what the coordinate
\* lookup by its identifier returned (<<>>: no entity, no identifier, no pair).
WinnerOf(query, producer) ==
    pick_best_wikidata_entity(
        first_ret[<<"entities", QueryClass("entities", query)>>].ret, producer)

CoordsOfWinner(query, producer) ==
    LET best == WinnerOf(query, producer)
        id == IF best = <<>> THEN "" ELSE norm_text(best[1].id)
    IN IF id = "" THEN <<>>
       ELSE IF <<"entity", id>> \in DOMAIN first_ret
       THEN first_ret[<<"entity", id>>].ret
       ELSE <<>>

\* A variant whose winner has an identifier had its coordinate looked up.
LookedUp(query, producer) ==
    LET best == WinnerOf(query, producer)
    IN (best # <<>> /\ norm_text(best[1].id) # "")
          => <<"entity", norm_text(best[1].id)>> \in DOMAIN first_ret

\* C20: the knowledge-base tier tries the name variants in order, each only
\* after the earlier ones gave nothing; a variant succeeds exactly when the
\* coordinate lookup by the identifier of its arg-max entity returned a pair;
\* the producer_wikidata result carries that pair, the variant as query and
\* confidence 0.74; a winner without identifier or coordinate moves the tier
\* to the next variant, and the fallback comes only after all variants.
C20_KnowledgeBaseTier ==
    \A key \in DOMAIN attempts :
        key[1] = "producer" =>
            LET p == key[2]
                tried == WdTried(p)
                queries == WikidataQueries(p)
                n == Len(tried)
                resolved == p \in DOMAIN producer_geo
            IN /\ n <= Len(queries)
               /\ \A k \in 1..n :
                     /\ tried[k].query = queries[k]
                     /\ k < n => ~tried[k].found
                     /\ LookedUp(queries[k], p)
                     /\ tried[k].found <=> CoordsOfWinner(queries[k], p) # <<>>
               /\ (resolved /\ producer_geo[p].source = "producer_wikidata") =>
                     /\ n > 0 /\ tried[n].found
                     /\ <<producer_geo[p].lat, producer_geo[p].lng>>
                           = CoordsOfWinner(queries[n], p)
                     /\ producer_geo[p].query = queries[n]
                     /\ producer_geo[p].confidence = 740
               /\ (n > 0 /\ tried[n].found) =>
                     resolved /\ producer_geo[p].source = "producer_wikidata"
               /\ (resolved /\ producer_geo[p].source
                        \in {"producer_sub_region_fallback", "producer_region_fallback"})
                     => n = Len(queries) /\ ~tried[n].found

C20_Witness ==
    \E p \in DOMAIN producer_geo :
        /\ producer_geo[p].source = "producer_wikidata"
        /\ Len(WdTried(p)) = 2
        /\ WinnerOf(WdTried(p)[1].query, p) = <<>>
        /\ <<producer_geo[p].lat, producer_geo[p].lng>>
              = CoordsOfWinner(WdTried(p)[2].query, p)

\* a winner without identifier, and a winner without coordinate, each followed
\* by the next name variant
NextVariantWitness ==
    \E p \in DOMAIN producer_geo :
        /\ Len(WdTried(p)) >= 3
        /\ WinnerOf(WdTried(p)[1].query, p) # <<>>
        /\ norm_text(WinnerOf(WdTried(p)[1].query, p)[1].id) = ""
        /\ WinnerOf(WdTried(p)[2].query, p) # <<>>
        /\ norm_text(WinnerOf(WdTried(p)[2].query, p)[1].id) # ""
        /\ CoordsOfWinner(WdTried(p)[2].query, p) = <<>>

\* The calls of kind `op` in `log` made while resolving the entity <<kind, name>>.
CallsFor(log, kind, name, op) ==
    SelectSeq(log, LAMBDA c : c.kind = kind /\ c.name = name /\ c.op = op)

EntityOf(c) == <<c.kind, c.name>>

\* The entity has reached its terminal state.
Terminal(e) ==
    /\ e[1] = "region" => region_geo # <<>>
    /\ e[1] = "sub_region" => e[2] \in ProcessedSubRegions
    /\ e[1] = "producer" => e[2] \in DOMAIN producer_geo

\* The stages of run(), in the order it goes through them.
Phase(at) ==
    IF at = "start" THEN 0
    ELSE IF at = "region" THEN 1
    ELSE IF at = "subregion" THEN 2
    ELSE IF at \in {"producer_geocode", "producer_wikidata", "producer_entity"} THEN 3
    ELSE 4

\* The last call of `log` keeps the entity within its bounds, repeats no search
\* query of the entity, and is not a return to an entity left earlier.
NewCallOK(log) ==
    LET n == Len(log)
        c == log[n]
        searches == CallsFor(log, c.kind, c.name, "search")
        entities == CallsFor(log, c.kind, c.name, "entities")
        lookups == CallsFor(log, c.kind, c.name, "entity")
    IN /\ c.kind \in {"region", "sub_region"} =>
             Len(searches) <= 2 /\ entities = <<>> /\ lookups = <<>>
       /\ c.kind = "producer" =>
             Len(searches) <= 5 /\ Len(entities) <= 5 /\ Len(lookups) <= 5
       /\ c.op \in {"search", "entities"} =>
             \A j \in 1..(n - 1) :
                 (EntityOf(log[j]) = EntityOf(c) /\ log[j].op = c.op)
                    => log[j].query # c.query
       /\ (n > 1 /\ EntityOf(log[n - 1]) # EntityOf(c)) =>
             /\ \A j \in 1..(n - 1) : EntityOf(log[j]) # EntityOf(c)
             /\ Terminal(EntityOf(log[n - 1]))

\* C21: every step of the run either makes one more client call or moves to
\* a later stage; one entity gets at most 2 geocode searches (sub-region or
\* region), a producer at most 5 geocode searches, 5 entity searches and 5
\* coordinate lookups; no search query of an entity is repeated; the run never
\* returns to an entity it has left, and an entity left is in its terminal
\* state. So the resolution of every entity ends after a bounded number of
\* calls.
C21_BoundedResolution ==
    [][/\ Phase(pc') >= Phase(pc)
       /\ \/ calls' = calls /\ Phase(pc') > Phase(pc)
          \/ /\ Len(calls') = Len(calls) + 1
             /\ SubSeq(calls', 1, Len(calls)) = calls
             /\ NewCallOK(calls')
       /\ (pc' = "done" /\ calls # <<>>) => Terminal(EntityOf(calls[Len(calls)]))']_vars

C21_Witness ==
    /\ pc = "done"
    /\ \E k \in 1..Len(calls) :
          /\ calls[k].kind = "producer"
          /\ Len(CallsFor(calls, "producer", calls[k].name, "search")) = 5
          /\ Len(CallsFor(calls, "producer", calls[k].name, "entities")) = 5
          /\ Len(CallsFor(calls, "producer", calls[k].name, "entity")) >= 1
    /\ \E k \in 1..Len(calls) :
          /\ calls[k].kind = "sub_region"
          /\ Len(CallsFor(calls, "sub_region", calls[k].name, "search")) = 2

\* What pick_best_geocode returned for the last geocode phrasing of a producer.
ProducerScoredFor(p) ==
    LET tried == GeoTried(p)
    IN pick_best_geocode(
           first_ret[<<"search", QueryClass("search", tried[Len(tried)].query)>>].ret,
           p, primary_sub_region(p))

\* No result in the region, sub-region or producer results changes in a step.
StoredUnchanged ==
    /\ region_geo # <<>> => region_geo' = region_geo
    /\ \A sr \in DOMAIN sub_region_geo :
          sr \in DOMAIN sub_region_geo' /\ sub_region_geo'[sr] = sub_region_geo[sr]
    /\ \A p \in DOMAIN producer_geo :
          p \in DOMAIN producer_geo' /\ producer_geo'[p] = producer_geo[p]

\* The geocoded results, related by R to what the scorer returned for them.
ScorerResults(R(_, _)) ==
    /\ (region_geo # <<>> /\ region_geo[1].source = "sub_region_geocode") =>
          R(region_geo[1], ScoredFor(region_geo[1].query, "Bourgogne")[1])
    /\ \A sr \in DOMAIN sub_region_geo :
          R(sub_region_geo[sr], ScoredFor(sub_region_geo[sr].query, sr)[1])
    /\ \A p \in DOMAIN producer_geo :
          producer_geo[p].source = "producer_geocode"
             => R(producer_geo[p], ProducerScoredFor(p)[1])

Same(stored, scored) == stored = scored

SameButLabels(stored, scored) ==
    /\ <<stored.lat, stored.lng, stored.display_name>>
          = <<scored.lat, scored.lng, scored.display_name>>
    /\ stored.confidence \in {scored.confidence, 700}

\* C24, as stated: at every step of the run a result has the fields it had
\* when the scorer returned it, and the step changes no stored result.
C24_NeverMutated ==
    [][StoredUnchanged /\ ScorerResults(Same)]_vars

\* C24, amended: no step of the run changes a result stored as the region
\* result, in the sub-region results or in the producer results, fallbacks
\* included; of what the scorer returned, the tier function that stores it
\* has rewritten query, source and (sub-region tier) the confidence only.
C24_ImmutableOnceStored ==
    [][StoredUnchanged /\ ScorerResults(SameButLabels)]_vars

C24_Witness ==
    /\ pc = "done"
    /\ \E p \in DOMAIN producer_geo :
          /\ producer_geo[p].source = "producer_sub_region_fallback"
          /\ primary_sub_region(p) \in DOMAIN sub_region_geo
          /\ sub_region_geo[primary_sub_region(p)].source = "sub_region_geocode"
    /\ \E p \in DOMAIN producer_geo : producer_geo[p].source = "producer_geocode"

\* ------------------------------------------------------ claims on clients
LastId == <<last.op, QueryClass(last.op, last.query)>>

\* C4: a query (up to letter case and surrounding whitespace for the search
\* caches) goes to the network at most once in a run; a call of a query that
\* has returned before makes no network call, does not sleep, leaves
\* last_request and the cache as they are and returns what the first call
\* returned.
C4_CacheIdempotence ==
    /\ \A id \in DOMAIN net_calls : net_calls[id] <= 1
    /\ last.repeat =>
          /\ ~last.net /\ ~last.raised /\ last.slept = 0 /\ ~last.changed
          /\ ret = first_ret[LastId].ret

\* a second call, spelled differently from the first, served after one request
C4_Witness ==
    /\ last.repeat
    /\ first_ret[LastId].query # last.query
    /\ LastId \in DOMAIN net_calls /\ net_calls[LastId] = 1
    /\ ret # <<>>

\* C5: no exception leaves a client call (timeouts, connection errors,
\* malformed bodies and unexpected shapes all become an empty result).
C5_NoExceptionEscapes == ~last.raised

\* C6: an entity whose network lookup found no coordinate claim is cached with
\* null lat and lng; looking it up again, in the same run or in a later run
\* on the saved cache, makes no network call and returns no coordinate.
C6_NegativeCache ==
    /\ \A id \in neg_found :
          /\ WdEntityKey(id) \in DOMAIN cache
          /\ cache[WdEntityKey(id)].kind = "dict"
          /\ cache[WdEntityKey(id)].lat = <<>>
          /\ cache[WdEntityKey(id)].lng = <<>>
    /\ last.known_absent => (~last.net /\ ~last.raised /\ ret = <<>>)

\* the lookup is answered in a later run, from the saved file alone
C6_Witness ==
    /\ last.known_absent
    /\ last.query \in neg_saved
    /\ DOMAIN net_calls = {}
    /\ ret = <<>>

\* C10: a network request of a client starts no earlier than min_delay after
\* that client's last_request, whatever was asked; a cache hit does not sleep
\* and leaves last_request alone.
C10_RateLimit ==
    /\ last.net => last.gap >= MinDelay(last.client)
    /\ (last.op # "none" /\ ~last.net) => (last.slept = 0 /\ ~last.changed)

\* a request that had to wait for the client's previous request
C10_Witness == last.net /\ ~last.raised /\ last.slept > 0

\* The cache map an operation works on, and the key it uses for a query.
CacheOfOp(op) == IF op = "polygon" THEN poly_cache ELSE cache

KeyOfCall(op, query) ==
    IF op = "entities" THEN WdSearchKey(query)
    ELSE IF op = "entity" THEN WdEntityKey(query)
    ELSE NomKey(query)

SearchOps == {"search", "entities", "polygon"}

\* C11: a search that went to the network and returned leaves its result in
\* the cache under the query's key, an empty result included; every query that
\* has gone to the network and returned in this run is still cached, and was
\* sent once.
C11_ResultCachedBeforeReturn ==
    /\ (last.op \in SearchOps /\ last.net /\ ~last.raised) =>
          LET key == KeyOfCall(last.op, last.query)
          IN /\ key \in DOMAIN CacheOfOp(last.op)
             /\ CacheOfOp(last.op)[key] = JList(ret)
    /\ \A id \in DOMAIN first_ret :
          (id[1] \in SearchOps /\ id \in DOMAIN net_calls) =>
              /\ net_calls[id] = 1
              /\ KeyOfCall(id[1], first_ret[id].query) \in DOMAIN CacheOfOp(id[1])
              /\ CacheOfOp(id[1])[KeyOfCall(id[1], first_ret[id].query)]
                    = JList(first_ret[id].ret)

\* a query that had returned nothing is asked again and served from the cache
C11_Witness ==
    /\ last.op \in SearchOps /\ last.repeat /\ ~last.net
    /\ ret = <<>>
    /\ LastId \in DOMAIN net_calls
    /\ CacheOfOp(last.op)[KeyOfCall(last.op, last.query)] = JList(<<>>)

\* The file g holds what the file f held: it is readable, and every entry of
\* f, if f was readable, is in it unchanged.
FileKept(f, g) ==
    /\ g.valid
    /\ (f.exists /\ f.valid) =>
          \A k \in DOMAIN f.members :
              k \in DOMAIN g.members /\ g.members[k] = f.members[k]

\* C12: the cache files change only when a run ends (no client call writes
\* them), and whatever happens, a step leaves each file readable and holding
\* every entry it held before.
C12_FileNeverCorrupted ==
    [][/\ (cache_file' # cache_file \/ poly_file' # poly_file)
             => (pc = "client" /\ pc' \in {"done", "crashed"})
       /\ FileKept(cache_file, cache_file')
       /\ FileKept(poly_file, poly_file')]_vars

\* C14: in the cache map the geocode client and the knowledge-base client
\* share, no two different operations use the same key.
C14_NamespacesDisjoint ==
    \A a, b \in DOMAIN first_ret :
        (a[1] # b[1] /\ {a[1], b[1]} \subseteq {"search", "entities", "entity"})
           => KeyOfCall(a[1], first_ret[a].query) # KeyOfCall(b[1], first_ret[b].query)

\* ------------------------------------------------------ claims on scorers
\* Whether the scorer considers candidate i, and the score it gives it.
Eligible(i) ==
    IF sc_kind = "geocode" THEN HasCoords(sc_results[i])
    ELSE IF sc_kind = "wikidata" THEN sc_results[i].shape = "dict"
    ELSE score_candidate(sc_results[i], sc_producer) # <<>>

ScoreOf(i) ==
    IF sc_kind = "geocode"
    THEN GeoScore(sc_results[i], producer_tokens(sc_producer), Lower(sc_region))
    ELSE IF sc_kind = "wikidata"
    THEN WdScore(sc_results[i], producer_tokens(sc_producer))
    ELSE PolyScore(sc_results[i], sc_producer)

\* candidate i is the one returned
IsPicked(i) ==
    /\ sc_picked # <<>>
    /\ IF sc_kind = "geocode"
       THEN /\ sc_picked[1].lat = sc_results[i].lat[1]
            /\ sc_picked[1].lng = sc_results[i].lon[1]
            /\ sc_picked[1].display_name = norm_text(sc_results[i].display_name)
       ELSE IF sc_kind = "wikidata" THEN sc_picked[1] = sc_results[i]
       ELSE /\ sc_picked[1].lat = sc_results[i].lat[1]
            /\ sc_picked[1].lon = sc_results[i].lon[1]
            /\ sc_picked[1].display_name = sc_results[i].display_name
            /\ sc_picked[1].score = ScoreOf(i)

EligibleSet == {i \in 1..Len(sc_results) : Eligible(i)}

\* the first of the eligible candidates with the greatest score
FirstBest(i) ==
    /\ i \in EligibleSet
    /\ \A j \in EligibleSet : ~FLess(ScoreOf(i), ScoreOf(j))
    /\ \A j \in EligibleSet : j < i => FLess(ScoreOf(j), ScoreOf(i))

\* C9: each scorer returns the eligible candidate with the greatest score, the
\* first-listed one among equals (so the winner depends on the list and the
\* context alone), and None when no candidate is eligible.
C9_FirstBestWins ==
    sc_status = "returned" =>
        IF EligibleSet = {} THEN sc_picked = <<>>
        ELSE \E i \in EligibleSet : FirstBest(i) /\ IsPicked(i)

\* two eligible candidates share the top score and the first is returned
C9_Witness ==
    /\ sc_status = "returned"
    /\ \E i, j \in EligibleSet :
          /\ i < j /\ ScoreOf(i) = ScoreOf(j)
          /\ FirstBest(i) /\ IsPicked(i) /\ ~IsPicked(j)

\* No entry of the list can be recommended: none is a dict with coordinates
\* (geocode), none is a dict (entities), none passes the polygon filter.
NothingUsable ==
    \A i \in 1..Len(sc_results) :
        \/ sc_results[i].shape # "dict"
        \/ sc_kind = "geocode" /\ ~HasCoords(sc_results[i])
        \/ sc_kind = "polygon" /\ score_candidate(sc_results[i], sc_producer) = <<>>

\* C22: on every candidate list, the empty one, one without a usable candidate
\* and one with entries of unexpected shape included, each scorer returns and
\* raises no error, and returns "no result" when no candidate is usable.
C22_NoResultIsNormal ==
    /\ sc_status # "raised"
    /\ (sc_status = "returned" /\ NothingUsable) => sc_picked = <<>>

\* The candidate choose_polygon returned.
PickedPolygon == sc_kind = "polygon" /\ sc_status = "returned" /\ sc_picked # <<>>

\* C23, as stated: choose_polygon never returns a candidate whose geometry is
\* no Polygon or MultiPolygon, whose type is in the deny list, or whose class
\* or type is outside the allow lists.
C23_OnlyAllowed ==
    PickedPolygon =>
        /\ sc_picked[1].geojson \in {"Polygon", "MultiPolygon"}
        /\ sc_picked[1].item_type \notin DISALLOWED_TYPES
        /\ sc_picked[1].item_class \in ALLOWED_CLASSES
        /\ sc_picked[1].item_type \in ALLOWED_TYPES

\* C23, amended: the same, the allow lists applying to a class and a type
\* that are present (not empty); the candidate returned is one of the list
\* that passes the filter, whatever the rejected ones would have scored.
C23_OnlyAllowedWhenPresent ==
    PickedPolygon =>
        /\ sc_picked[1].geojson \in {"Polygon", "MultiPolygon"}
        /\ sc_picked[1].item_type \notin DISALLOWED_TYPES
        /\ sc_picked[1].item_class \in ALLOWED_CLASSES \cup {""}
        /\ sc_picked[1].item_type \in ALLOWED_TYPES \cup {""}
        /\ \E i \in 1..Len(sc_results) :
              /\ sc_results[i].geojson = sc_picked[1].geojson
              /\ sc_results[i].class = sc_picked[1].item_class
              /\ sc_results[i].type = sc_picked[1].item_type
              /\ sc_results[i].display_name = sc_picked[1].display_name

\* a candidate of a denied type that would have scored higher was in the list
C23_Witness ==
    /\ PickedPolygon
    /\ \E i \in 1..Len(sc_results) :
          /\ sc_results[i].type \in DISALLOWED_TYPES
          /\ sc_results[i].geojson = "Polygon"
          /\ HasCoords(sc_results[i])
          /\ FLess(sc_picked[1].score, PolyScore(sc_results[i], sc_producer))

\* Every key of map `a` is in map `b` with the same value.
Extends(b, a) == \A k \in DOMAIN a : k \in DOMAIN b /\ b[k] = a[k]

\* The step changed map `a` into `b`: by one new key, the key of the call the
\* step made, which went to the network and returned.
WriteOnMiss(a, b, op) ==
    a # b =>
        LET key == KeyOfCall(last'.op, last'.query)
        IN /\ (last'.op = "polygon") <=> (op = "polygon")
           /\ last'.net /\ ~last'.raised
           /\ key \notin DOMAIN a
           /\ DOMAIN b = DOMAIN a \cup {key}

\* C25: within a run no step removes a key of the cache map or changes its
\* value; the map changes only by the one key of a call that missed; what
\* save_cache writes holds every key of the map, and reading it back gives
\* the values of the map.
C25_CacheMonotone ==
    [][pc = "client" =>
          /\ Extends(cache', cache) /\ Extends(poly_cache', poly_cache)
          /\ WriteOnMiss(cache, cache', "search")
          /\ WriteOnMiss(poly_cache, poly_cache', "polygon")
          /\ (pc' = "done" /\ prog # "polygons") => Extends(load_cache(cache_file'), cache)
          /\ (pc' = "done" /\ prog = "polygons")
                => Extends(load_cache(poly_file'), poly_cache)]_vars

\* a run that loaded a cache with entries, added a key and saved
C25_Witness ==
    /\ pc = "done" /\ prog # "polygons"
    /\ Cardinality(DOMAIN first_ret) = 1
    /\ Cardinality(DOMAIN cache) >= 2
    /\ \E id \in DOMAIN first_ret : id \in DOMAIN net_calls
    /\ DOMAIN cache_file.members = DOMAIN cache

\* ------------------------------------------------------- failed HTTP calls
\* The same search issued again on the client as a call left it.
Reissue(op, cache_map, el, query, resp) ==
    IF op = "search" THEN nominatim_search(cache_map, el, query, resp, 0, 0)
    ELSE IF op = "entities" THEN search_entities(cache_map, el, query, resp, 0, 0)
    ELSE polygon_search(cache_map, el, query, resp, 0, 0)

\* C26: a search whose HTTP call raised leaves the cache maps and the cache
\* files as they were, with no entry under the query's key; last_request is
\* not advanced (the time since the client's last request has only grown, by
\* at least the sleep before the call); the same query issued again goes to
\* the network whatever the upstream answers.
C26_FailedCallLeavesNoTrace ==
    [][(pc = "client" /\ last'.raised /\ last'.op \in SearchOps) =>
          /\ last'.net
          /\ cache' = cache /\ poly_cache' = poly_cache
          /\ cache_file' = cache_file /\ poly_file' = poly_file
          /\ neg_found' = neg_found
          /\ KeyOfCall(last'.op, last'.query)
                \notin DOMAIN (IF last'.op = "polygon" THEN poly_cache' ELSE cache')
          /\ elapsed'[last'.client] >= Min(elapsed[last'.client] + last'.slept, Cap)
          /\ elapsed'[last'.client] > 0
          /\ \A resp \in ClientListAnswers \cup ClientSearchAnswers :
                Reissue(last'.op,
                        IF last'.op = "polygon" THEN poly_cache' ELSE cache',
                        elapsed', last'.query, resp).net]_vars

\* a search that waited for the previous request of its client and then failed
C26_Witness ==
    /\ pc = "crashed" /\ last.raised /\ last.op \in SearchOps
    /\ last.slept > 0
    /\ DOMAIN CacheOfOp(last.op) # {}

\* ======================================================= scrape_bourgogne.py
\* ---------------------------------------------------------------- fetch_text
MaxRetries == 4

\* What one attempt (urlopen, response.read, decode) does: it succeeds, or it
\* raises one of the exceptions the except clause names, or another one
\* (http.client.IncompleteRead, ConnectionResetError while reading, ...).
Handled == {"HTTPError", "URLError", "TimeoutError", "ValueError"}
AttemptOutcomes == {"ok", "other"} \cup Handled

RECURSIVE Pow2(_)
Pow2(n) == IF n = 0 THEN 1 ELSE 2 * Pow2(n - 1)

\* min(2 ** attempt, 5)
MutBackoff(attempt) == Min(2 * (attempt + 1), 5)
Backoff(attempt) == Min(Pow2(attempt), 5)

\* for attempt in range(retries + 1): an empty range goes straight to the raise
FetchStart ==
    /\ pc = "fetch" /\ ft_pc = "start"
    /\ ft_pc' = IF ft_retries + 1 > 0 THEN "attempt" ELSE "raised"
    /\ UNCHANGED <<ft_retries, ft_attempt, ft_last_error, ft_tries, ft_slept>>
    /\ UNCHANGED <<pc, prog, clientVars, runVars, scoreVars, scrapeVars>>

\* The body of the loop up to the sleep: return on success; a handled
\* exception is kept in last_error and ends the loop when attempt == retries;
\* any other exception leaves fetch_text.
MutAfterFailure(attempt, retries) == "sleep"
AfterFailure(attempt, retries) == IF attempt = retries THEN "raised" ELSE "sleep"

FetchAttempt ==
    /\ pc = "fetch" /\ ft_pc = "attempt"
    /\ ft_tries' = ft_tries + 1
    /\ \E outcome \in AttemptOutcomes :
          IF outcome = "ok" THEN ft_pc' = "returned" /\ UNCHANGED ft_last_error
          ELSE IF outcome \in Handled
               THEN /\ ft_last_error' = outcome
                    /\ ft_pc' = AfterFailure(ft_attempt, ft_retries)
          ELSE ft_pc' = "propagated" /\ UNCHANGED ft_last_error
    /\ UNCHANGED <<ft_retries, ft_attempt, ft_slept>>
    /\ UNCHANGED <<pc, prog, clientVars, runVars, scoreVars, scrapeVars>>

\* time.sleep(min(2 ** attempt, 5)), then the next value of attempt
FetchSleep ==
    /\ pc = "fetch" /\ ft_pc = "sleep"
    /\ ft_slept' = Append(ft_slept, Backoff(ft_attempt))
    /\ ft_attempt' = ft_attempt + 1
    /\ ft_pc' = IF ft_attempt + 1 <= ft_retries THEN "attempt" ELSE "raised"
    /\ UNCHANGED <<ft_retries, ft_last_error, ft_tries>>
    /\ UNCHANGED <<pc, prog, clientVars, runVars, scoreVars, scrapeVars>>

FetchInit ==
    /\ pc = "fetch" /\ prog = "scrape"
    /\ cache_file = NoFile /\ poly_file = NoFile
    /\ cache = EmptyMap /\ poly_cache = EmptyMap
    /\ elapsed = [c \in Clients |-> Cap]
    /\ ret = <<>> /\ last = NoCall
    /\ first_ret = [k \in {} |-> [query |-> "", ret |-> <<>>]]
    /\ net_calls = [k \in {} |-> 0]
    /\ neg_found = {} /\ neg_saved = {}
    /\ RunIdle /\ ScoreIdle /\ ScrapeIdle
    /\ ft_retries \in -1..MaxRetries
    /\ ft_pc = "start" /\ ft_attempt = 0 /\ ft_last_error = "None"
    /\ ft_tries = 0 /\ ft_slept = <<>>

FetchNext == FetchStart \/ FetchAttempt \/ FetchSleep

\* urlopen has a timeout and time.sleep returns: a pending step is taken
SpecFetch == FetchInit /\ [][FetchNext]_vars /\ WF_vars(FetchNext)

FetchEnded == ft_pc \in {"returned", "raised", "propagated"}

\* the sleeps fetch_text makes before attempts 1, 2, ..., n
Sleeps(n) == [k \in 1..n |-> IF k = 1 THEN 1 ELSE IF k = 2 THEN 2
                             ELSE IF k = 3 THEN 4 ELSE 5]

FetchBounded ==
    ft_retries >= 0 =>
        /\ ft_tries <= ft_retries + 1
        /\ ft_pc = "attempt" =>
              ft_tries = ft_attempt /\ ft_tries <= ft_retries /\ ft_slept = Sleeps(ft_tries)
        /\ ft_pc = "sleep" => (ft_tries <= ft_retries /\ ft_slept = Sleeps(ft_tries - 1))
        /\ FetchEnded => (ft_tries >= 1 /\ ft_slept = Sleeps(ft_tries - 1))
        /\ ft_pc = "returned" => ((ft_last_error = "None") <=> (ft_tries = 1))
        /\ ft_pc = "raised" => (ft_tries = ft_retries + 1 /\ ft_last_error \in Handled)

\* C28: with retries = r >= 0, fetch_text calls urlopen at most r + 1 times and
\* makes no attempt after a successful one; the sleep between attempt k and
\* attempt k + 1 (k counted from 0) is min(2^k, 5) seconds; the error after the
\* (r + 1)-th failure is raised with no sleep after that failure; and every
\* call of fetch_text ends, by returning or by raising.
C28_BoundedRetries ==
    /\ []FetchBounded
    /\ [][FetchEnded => fetchVars' = fetchVars]_vars
    /\ <>FetchEnded

\* all retries used: four sleeps of 1, 2, 4 and 5 seconds, then the error
C28_Witness ==
    /\ ft_retries = 4 /\ ft_pc = "raised" /\ ft_tries = 5
    /\ ft_slept = <<1, 2, 4, 5>>

\* success on the third attempt
C28_ReturnWitness ==
    ft_retries = 3 /\ ft_pc = "returned" /\ ft_tries = 3 /\ ft_slept = <<1, 2>>

\* ------------------------------------------------- listing and product pages
MaxHits == 3

\* A hit of the listing payload: id is <<n>> for an int id and <<>> for an id
\* that is absent or not an int; link is "" when the hit has no link.
ListingHit(id, link) == [id |-> id, link |-> link]

HitPool ==
    {ListingHit(<<1>>, "/p/1"), ListingHit(<<2>>, "/p/2"), ListingHit(<<2>>, ""),
     ListingHit(<<3>>, "/p/3"), ListingHit(<<>>, "/p/x")}

\* What fetching and parsing a product page gives: HTML with a Product node,
\* HTML without one, or an exception (fetch_text gave up, or the parse failed).
PageOutcomes == {"product", "no_product", "error"}

IntIds(hs) == {hs[i].id[1] : i \in {j \in DOMAIN hs : hs[j].id # <<>>}}

\* the fields of a listing record that the merge and the sort read
normalize_listing_hit(hit) == [id |-> hit.id, url |-> hit.link]

\* collect_listing_hits: the first hit of each int id, in page order, up to
\* max_wines of them; list(unique.values())
RECURSIVE CollectHits(_, _, _)
CollectHits(hs, unique, limit) ==
    IF hs = <<>> THEN unique
    ELSE LET hit == Head(hs)
             fresh == /\ hit.id # <<>>
                      /\ \A i \in DOMAIN unique : unique[i].id # hit.id
             next == IF fresh THEN Append(unique, normalize_listing_hit(hit)) ELSE unique
         IN IF fresh /\ limit > 0 /\ Len(next) >= limit THEN next
            ELSE CollectHits(Tail(hs), next, limit)

collect_listing_hits(hs, limit) == CollectHits(hs, <<>>, limit)

\* The Product node of the JSON-LD of a wine's page, and its normalisation
ProductNode(id) == [type |-> "Product", name |-> id]
normalize_product_data(node) == [name_product |-> node.name]

\* product is <<>> for None
merge_wine_data(listing, product) ==
    [id |-> listing.id,
     url |-> listing.url,
     name_product |-> IF product = <<>> THEN <<>> ELSE <<product[1].name_product>>]

\* fetch_product_and_merge: every exception of the fetch and the parse is
\* caught and kept as text in the raw record; raised tells whether an
\* exception leaves the function.
MutFetchProductAndMerge(listing_item, outcome) ==
    IF listing_item.url # "" /\ outcome = "error"
    THEN [merged |-> merge_wine_data(listing_item, <<>>),
          raw |-> [listing |-> listing_item, product_json_ld |-> <<>>, error |-> "None"],
          raised |-> TRUE]
    ELSE LET node == IF listing_item.url # "" /\ outcome = "product"
                     THEN <<ProductNode(listing_item.id[1])>> ELSE <<>>
         IN [merged |-> merge_wine_data(listing_item,
                           IF node # <<>> THEN <<normalize_product_data(node[1])>>
                           ELSE <<>>),
             raw |-> [listing |-> listing_item, product_json_ld |-> node,
                      error |-> IF listing_item.url = "" THEN "missing product url"
                                ELSE "None"],
             raised |-> FALSE]
fetch_product_and_merge(listing_item, outcome) ==
    IF listing_item.url = ""
    THEN [merged |-> merge_wine_data(listing_item, <<>>),
          raw |-> [listing |-> listing_item, product_json_ld |-> <<>>,
                   error |-> "missing product url"],
          raised |-> FALSE]
    ELSE IF outcome = "error"
    THEN [merged |-> merge_wine_data(listing_item, <<>>),
          raw |-> [listing |-> listing_item, product_json_ld |-> <<>>,
                   error |-> "str(exc)"],
          raised |-> FALSE]
    ELSE LET node == IF outcome = "product"
                     THEN <<ProductNode(listing_item.id[1])>> ELSE <<>>
         IN [merged |-> merge_wine_data(listing_item,
                           IF node # <<>> THEN <<normalize_product_data(node[1])>>
                           ELSE <<>>),
             raw |-> [listing |-> listing_item, product_json_ld |-> node,
                      error |-> "None"],
             raised |-> FALSE]

\* key=lambda x: (x.get("id") is None, x.get("id")), as <<is None, id>>
SortKey(id) == <<id = <<>>, id>>
KeyLE(a, b) == IF a[1] # b[1] THEN b[1] ELSE a[1] \/ a[2][1] <= b[2][1]

\* list.sort on <<key, value>> pairs: stable, ascending by key
RECURSIVE list_sort(_)
MutListSort(pairs) == pairs
list_sort(pairs) ==
    IF pairs = <<>> THEN <<>>
    ELSE LET n == Len(pairs)
             x == pairs[n]
             front == list_sort(SubSeq(pairs, 1, n - 1))
             k == Cardinality({i \in DOMAIN front : KeyLE(front[i][1], x[1])})
         IN SubSeq(front, 1, k) \o <<x>> \o SubSeq(front, k + 1, Len(front))

SortedMerged(rs) ==
    LET sorted == list_sort([i \in DOMAIN rs |-> <<SortKey(rs[i].id), rs[i]>>])
    IN [i \in DOMAIN sorted |-> sorted[i][2]]

SortedRaw(rs) ==
    LET sorted == list_sort([i \in DOMAIN rs |-> <<SortKey(rs[i].listing.id), rs[i]>>])
    IN [i \in DOMAIN sorted |-> sorted[i][2]]

\* main(): the listing is collected and one future per item is submitted
ScrapeCollect ==
    /\ pc = "listing"
    /\ listing_items' = collect_listing_hits(hits, max_wines)
    /\ fut' = [i \in DOMAIN listing_items' |-> "pending"]
    /\ fut_result' = [i \in DOMAIN listing_items' |-> <<>>]
    /\ pc' = "products"
    /\ UNCHANGED <<hits, pages, max_wines, workers, merged_results, raw_results,
                   yield_order, written>>
    /\ UNCHANGED <<prog, clientVars, runVars, scoreVars, fetchVars>>

\* ThreadPoolExecutor: a free worker takes the oldest future not yet started
WorkerStart ==
    /\ pc = "products"
    /\ Cardinality({i \in DOMAIN fut : fut[i] = "running"}) < workers
    /\ \E i \in DOMAIN fut :
          /\ fut[i] = "pending"
          /\ \A j \in 1..(i - 1) : fut[j] # "pending"
          /\ fut' = [fut EXCEPT ![i] = "running"]
    /\ UNCHANGED <<hits, pages, max_wines, workers, listing_items, fut_result,
                   merged_results, raw_results, yield_order, written>>
    /\ UNCHANGED <<pc, prog, clientVars, runVars, scoreVars, fetchVars>>

\* a worker's call of fetch_product_and_merge ends, in any order
WorkerFinish ==
    /\ pc = "products"
    /\ \E i \in DOMAIN fut :
          /\ fut[i] = "running"
          /\ fut' = [fut EXCEPT ![i] = "finished"]
          /\ fut_result' = [fut_result EXCEPT ![i] =
                <<fetch_product_and_merge(listing_items[i],
                                          pages[listing_items[i].id[1]])>>]
    /\ UNCHANGED <<hits, pages, max_wines, workers, listing_items,
                   merged_results, raw_results, yield_order, written>>
    /\ UNCHANGED <<pc, prog, clientVars, runVars, scoreVars, fetchVars>>

\* for fut in as_completed(futures): fut.result() raises what the worker
\* raised; else both records are appended
MainYield ==
    /\ pc = "products"
    /\ \E i \in DOMAIN fut :
          /\ fut[i] = "finished"
          /\ fut' = [fut EXCEPT ![i] = "yielded"]
          /\ yield_order' = Append(yield_order, i)
          /\ IF fut_result[i][1].raised
             THEN pc' = "crashed" /\ UNCHANGED <<merged_results, raw_results>>
             ELSE /\ pc' = pc
                  /\ merged_results' = Append(merged_results, fut_result[i][1].merged)
                  /\ raw_results' = Append(raw_results, fut_result[i][1].raw)
    /\ UNCHANGED <<hits, pages, max_wines, workers, listing_items, fut_result, written>>
    /\ UNCHANGED <<prog, clientVars, runVars, scoreVars, fetchVars>>

\* after the last future: both lists are sorted in place and written
ScrapeFinish ==
    /\ pc = "products"
    /\ \A i \in DOMAIN fut : fut[i] = "yielded"
    /\ merged_results' = SortedMerged(merged_results)
    /\ raw_results' = SortedRaw(raw_results)
    /\ written' = merged_results'
    /\ pc' = "written"
    /\ UNCHANGED <<hits, pages, max_wines, workers, listing_items, fut, fut_result,
                   yield_order>>
    /\ UNCHANGED <<prog, clientVars, runVars, scoreVars, fetchVars>>

ScrapeInit ==
    /\ pc = "listing" /\ prog = "scrape"
    /\ cache_file = NoFile /\ poly_file = NoFile
    /\ cache = EmptyMap /\ poly_cache = EmptyMap
    /\ elapsed = [c \in Clients |-> Cap]
    /\ ret = <<>> /\ last = NoCall
    /\ first_ret = [k \in {} |-> [query |-> "", ret |-> <<>>]]
    /\ net_calls = [k \in {} |-> 0]
    /\ neg_found = {} /\ neg_saved = {}
    /\ RunIdle /\ ScoreIdle /\ FetchIdle
    /\ hits \in UNION {[1..n -> HitPool] : n \in 0..MaxHits}
    /\ pages \in [IntIds(hits) -> PageOutcomes]
    /\ max_wines \in {0, 2}
    /\ workers \in {1, 2}
    /\ listing_items = <<>> /\ fut = <<>> /\ fut_result = <<>>
    /\ merged_results = <<>> /\ raw_results = <<>> /\ yield_order = <<>>
    /\ written = <<>>

ScrapeNext == ScrapeCollect \/ WorkerStart \/ WorkerFinish \/ MainYield \/ ScrapeFinish

SpecScrape == ScrapeInit /\ [][ScrapeNext]_vars

\* the page of the item's wine could not be fetched or parsed
PageFailed(item) == item.url # "" /\ pages[item.id[1]] = "error"

AscendingIds(ids) ==
    \A k \in 1..(Len(ids) - 1) : ids[k] # <<>> /\ ids[k + 1] # <<>> /\ ids[k][1] < ids[k + 1][1]

\* C27: whatever the order in which the workers finish and as_completed
\* yields them, no future's exception ends the run, every yielded future has
\* added exactly one record, and the output written has exactly one record
\* per collected listing item (a listing-only record whose raw entry carries
\* the error when the page could not be fetched or parsed, the product's data
\* when it could), in ascending order of the wine ids, which are distinct ints.
C27_OneRecordPerItemSorted ==
    /\ pc # "crashed"
    /\ pc = "products" =>
          /\ Len(merged_results) = Len(yield_order)
          /\ Len(raw_results) = Len(yield_order)
          /\ \A j \in DOMAIN listing_items :
                Cardinality({k \in DOMAIN merged_results :
                                merged_results[k].id = listing_items[j].id})
                   = IF fut[j] = "yielded" THEN 1 ELSE 0
    /\ pc = "written" =>
          /\ written = merged_results
          /\ Len(written) = Len(listing_items)
          /\ Len(raw_results) = Len(listing_items)
          /\ \A j \in DOMAIN listing_items :
                LET item == listing_items[j]
                IN \E k \in DOMAIN written :
                      /\ written[k].id = item.id /\ written[k].url = item.url
                      /\ raw_results[k].listing = item
                      /\ PageFailed(item) =>
                            /\ written[k].name_product = <<>>
                            /\ raw_results[k].product_json_ld = <<>>
                            /\ raw_results[k].error \notin {"None", "missing product url"}
                      /\ (item.url # "" /\ pages[item.id[1]] = "product") =>
                            /\ written[k].name_product = <<item.id[1]>>
                            /\ raw_results[k].error = "None"
          /\ AscendingIds([k \in DOMAIN written |-> written[k].id])
          /\ AscendingIds([k \in DOMAIN raw_results |-> raw_results[k].listing.id])

\* three wines collected in an order that is not the order of their ids, one
\* page failed, and the futures were yielded in neither the listing order nor
\* the order of the ids
C27_Witness ==
    /\ pc = "written" /\ Len(written) = 3
    /\ ~AscendingIds([j \in DOMAIN listing_items |-> listing_items[j].id])
    /\ ~AscendingIds([k \in DOMAIN yield_order |-> listing_items[yield_order[k]].id])
    /\ yield_order # <<1, 2, 3>>
    /\ \E j \in DOMAIN listing_items : PageFailed(listing_items[j])
    /\ \E j \in DOMAIN listing_items : listing_items[j].url = ""

====
